---- MODULE Spec2Model ----
(***************************************************************************)
(* A model of the pipeline/pass builder layer (src/src/pipeline.rs), the   *)
(* imgui framework loop (src/src/framework.rs), the shader loaders         *)
(* (src/src/shader.rs, src/src/pipeline.rs) and the texture constructors   *)
(* (src/src/texture.rs) of wgpu_utils.                                     *)
(*                                                                         *)
(* Integers: every quantity modelled here stays far below 2^31, so the     *)
(* u32/i32 arithmetic of the source is modelled on unbounded integers with *)
(* Rust's truncating division written out (TruncDiv).                      *)
(***************************************************************************)
EXTENDS Integers, Sequences, FiniteSets, TLC

\* ------------------------------------------------------------------ bounds
\* Largest declared size (bytes) of a PushConstantLayout that is enumerated.
MaxSize == 9
\* Largest number of push_const_layout calls on one PipelineLayoutBuilder.
MaxLayouts == 3
\* Largest number of set_layout calls on one pipeline builder.
MaxSets == 2
\* Largest number of pipelines created on the device.
MaxPipelines == 2
\* Largest index handed to set_push_const, set_bind_group and set_vertex_buffer;
\* also the largest value vert_buffer_index is followed to.
MaxIndex == 2
\* Largest length of the slice handed to set_bind_groups.
MaxBindGroups == 2
\* Largest number of vertex-buffer bindings followed after one set_pipeline.
MaxBinds == 3
\* Largest number of shader modules created on the device.
MaxModules == 2
\* Largest number of ImguiContext::ui calls followed.
MaxUiCalls == 3
\* Largest number of passes the closure handed to ui records on the encoder.
MaxFPasses == 3
\* Largest number of textures created on the device.
MaxTextures == 3

\* ------------------------------------------------------------------ values
\* Option<T> is modelled as a sequence of length 0 (None) or 1 (Some(x)); a
\* value that was moved away is modelled the same way (nothing left).
None == <<>>
Some(x) == <<x>>
IsSome(o) == o # <<>>
Unwrap(o) == o[1]

\* wgpu::ShaderStages values used as inputs: sets of stage flags.
StageInputs == {{"VERTEX"}, {"VERTEX", "FRAGMENT"}}

\* PushConstantLayout { stages, size } values that are enumerated.
PushConstantLayouts == [stages : StageInputs, size : 0..MaxSize]

VARIABLES
    plb,            \* the PipelineLayoutBuilder in hand: None once moved into create
    created,        \* Option: the PipelineLayout returned by the last create
    created_from,   \* the push_const_layouts that create consumed (history)
    rpb,            \* Option: the RenderPipelineBuilder in hand, [layout : Option]
    cpb,            \* Option: the ComputePipelineBuilder in hand, [layout : Option]
    set_layouts,    \* the layouts given to set_layout on the builder in hand (history)
    device_pipelines, \* the pipelines created on the wgpu::Device, in order
    built,          \* Option: the RenderPipeline/ComputePipeline build returned last
    panic,          \* the message of the panic that ended the program, or NoPanic
    pb_call,        \* the pipeline-builder operation performed last (history)
    open_pass,      \* the pass open on the command encoder: "none", "render", "compute"
    rp_current,     \* Option: the wgpu pipeline set on the wgpu::RenderPass
    rp_previous,    \* Option: the wgpu pipeline that was set before it (history)
    rpp,            \* Option: the RenderPassPipeline in hand
    cp_current,     \* Option: the wgpu pipeline set on the wgpu::ComputePass
    cp_previous,    \* Option: the wgpu pipeline that was set before it (history)
    cpp,            \* Option: the ComputePassPipeline in hand
    pass_call,      \* the pass operation performed last, with its arguments (history)
    emitted,        \* the wgpu pass commands the last pass operation recorded
    pass_panic,     \* the message of the panic a pass operation ended in, or NoPanic
    vb_bound,       \* the vertex-buffer bindings made through the RenderPassPipeline
                    \* in hand, that is since the last set_pipeline (history)
    control_flow,   \* winit's ControlFlow, as the event-loop closure last left it
    redraw_requested, \* window.request_redraw() was called and no redraw came yet
    resized_to,     \* the size winit.resize was last called with, "" if never (history)
    fw_event,       \* the event the closure of ImguiFramework::run handled last,
                    \* with what the callbacks and the surface answered (history)
    fw_trace,       \* the steps the closure took for that event, in order (history)
    shader_modules, \* the number of shader modules created on the wgpu::Device
    sh_call,        \* the shader function called last, with its inputs (history)
    sh_result,      \* what that call returned: Ok, Err(msg) or a panic
    sh_macros,      \* the macro definitions that call added: <<name, value>> pairs
    sh_trace,       \* the steps that call took, in order (history)
    ui_pc,          \* position in ImguiContext::ui: 0 outside it, else the index in
                    \* UiOrder of the statement to run next
    ui_pass,        \* the render pass ui begins: "none", "open" or "ended"
    ui_f_pass,      \* the closure f has a pass of its own open on the encoder
    ui_trace,       \* the steps of the current or last ui call, in order (history)
    ui_calls,       \* the number of ui calls begun
    ui_panic,       \* the message of the panic ui ended in, or NoPanic
    textures,       \* the number of textures created on the wgpu::Device
    queue_writes,   \* the number of write_texture calls made on the wgpu::Queue
    tx_call,        \* the Texture function called last, with its inputs (history)
    tx_result,      \* what that call returned: Ok or Err(msg)
    tx_trace        \* the steps that call took, in order (history)

layoutVars == <<plb, created, created_from>>
pipeVars == <<rpb, cpb, set_layouts, device_pipelines, built, panic, pb_call>>

\* What the operations of one part of the model leave alone.
passVars == <<open_pass, rp_current, rp_previous, rpp, cp_current, cp_previous, cpp,
              pass_call, emitted, pass_panic, vb_bound>>
fwVars == <<control_flow, redraw_requested, resized_to, fw_event, fw_trace>>
shVars == <<shader_modules, sh_call, sh_result, sh_macros, sh_trace>>
uiVars == <<ui_pc, ui_pass, ui_f_pass, ui_trace, ui_calls, ui_panic>>
txVars == <<textures, queue_writes, tx_call, tx_result, tx_trace>>
notLayout == <<pipeVars, passVars, fwVars, shVars, uiVars, txVars>>
notPipe == <<layoutVars, passVars, fwVars, shVars, uiVars, txVars>>
notPass == <<layoutVars, pipeVars, fwVars, shVars, uiVars, txVars>>
notFw == <<layoutVars, pipeVars, passVars, shVars, uiVars, txVars>>
notSh == <<layoutVars, pipeVars, passVars, fwVars, uiVars, txVars>>
notUi == <<layoutVars, pipeVars, passVars, fwVars, shVars, txVars>>
notTx == <<layoutVars, pipeVars, passVars, fwVars, shVars, uiVars>>

\* ------------------------------------------------- pipeline.rs: create()
\* Rust's integer division: truncation toward zero.
TruncDiv(a, b) == IF a >= 0 THEN a \div b ELSE -((-a) \div b)

\* A mutant of SizeAligned: the size is used as declared, not aligned.
SizeAlignedUnaligned(size) == size

\* let size_aligned = (((x.size as i32 - 4)/4 + 1)*4) as u32;
SizeAligned(size) == (TruncDiv(size - 4, 4) + 1) * 4

RECURSIVE RangesFromMutNoAdvance(_, _)
\* A mutant of RangesFrom: offset is never advanced, every range starts at 0.
RangesFromMutNoAdvance(layouts, offset) ==
    IF layouts = <<>> THEN <<>>
    ELSE <<[stages |-> Head(layouts).stages,
            start |-> offset,
            end |-> offset + SizeAligned(Head(layouts).size)]>>
         \o RangesFromMutNoAdvance(Tail(layouts), offset)

RECURSIVE RangesFrom(_, _)
\* The .map closure over push_const_layouts with the captured `offset`.
RangesFrom(layouts, offset) ==
    IF layouts = <<>> THEN <<>>
    ELSE LET size_aligned == SizeAligned(Head(layouts).size)
             range == [start |-> offset, end |-> offset + size_aligned]
         IN <<[stages |-> Head(layouts).stages,
               start |-> range.start,
               end |-> range.end]>>
            \o RangesFrom(Tail(layouts), range.end)

\* let mut offset = 0; ... .collect()
PushConstRanges(layouts) == RangesFrom(layouts, 0)

\* PipelineLayout { layout: device.create_pipeline_layout(..), push_const_ranges }
\* The wgpu layout is modelled by the descriptor it was created from.
PipelineLayoutOf(layouts) ==
    LET push_const_ranges == PushConstRanges(layouts)
    IN [layout |-> [push_constant_ranges |-> push_const_ranges],
        push_const_ranges |-> push_const_ranges]

\* RenderPassPipeline::set_push_const(index, constant) with a constant of `size`
\* bytes: render_pass.set_push_constants(stages, range.start, bytes_of(constant))
\* writes the bytes range.start .. range.start + size - 1.
PushConstWrite(ranges, index, size) ==
    { ranges[index + 1].start + b : b \in 0..(size - 1) }

\* ---------------------------------------- PipelineLayoutBuilder operations
\* PipelineLayoutBuilder::new. The model follows one builder and the layout it
\* yields at a time: starting a new builder lets go of the previous layout.
PlbNew ==
    /\ plb' = Some([push_const_layouts |-> <<>>])
    /\ created' = None
    /\ created_from' = <<>>
    /\ UNCHANGED notLayout

\* PipelineLayoutBuilder::push_const_layout
PlbPushConstLayout ==
    /\ IsSome(plb)
    /\ Len(Unwrap(plb).push_const_layouts) < MaxLayouts
    /\ \E l \in PushConstantLayouts :
          plb' = Some([push_const_layouts |->
                          Append(Unwrap(plb).push_const_layouts, l)])
    /\ UNCHANGED <<created, created_from>>
    /\ UNCHANGED notLayout

\* PipelineLayoutBuilder::create (consumes the builder)
PlbCreate ==
    /\ IsSome(plb)
    /\ created' = Some(PipelineLayoutOf(Unwrap(plb).push_const_layouts))
    /\ created_from' = Unwrap(plb).push_const_layouts
    /\ plb' = None
    /\ UNCHANGED notLayout

LayoutInit ==
    /\ plb = None
    /\ created = None
    /\ created_from = <<>>

LayoutNext == PlbNew \/ PlbPushConstLayout \/ PlbCreate

\* ------------------------------------------------ pipeline builders
NoPanic == "none"

\* The push-constant layouts of the PipelineLayouts handed to set_layout.
LayoutSeqInputs ==
    { <<>>,
      <<[stages |-> {"VERTEX"}, size |-> 4]>>,
      <<[stages |-> {"VERTEX"}, size |-> 4],
        [stages |-> {"VERTEX", "FRAGMENT"}, size |-> 8]>>,
      <<[stages |-> {"VERTEX", "FRAGMENT"}, size |-> 8],
        [stages |-> {"VERTEX"}, size |-> 3]>> }

\* The PipelineLayouts handed to set_layout: each made by create.
PipelineLayoutInputs == { PipelineLayoutOf(ls) : ls \in LayoutSeqInputs }

\* A mutant of SetLayout: a layout that is already set is kept.
SetLayoutKeepFirst(builder, layout) ==
    IF IsSome(builder.layout) THEN builder
    ELSE [builder EXCEPT !.layout = Some(layout)]

\* self.layout = Some(layout); self
SetLayout(builder, layout) == [builder EXCEPT !.layout = Some(layout)]

\* The pipeline wrapper build returns: the device pipeline created with the
\* layout's wgpu layout, and a clone of the layout's push_const_ranges.
PipelineOf(kind, layout) ==
    [pipeline |-> [kind |-> kind, layout |-> Some(layout.layout)],
     push_const_ranges |-> layout.push_const_ranges]

\* A mutant of Build: a missing layout is handed to the device as None (the
\* device then creates a pipeline with a derived layout) and the panic comes
\* only afterwards.
BuildCreateFirst(kind, builder, call) ==
    /\ pb_call' = call
    /\ IF IsSome(builder.layout)
       THEN LET p == PipelineOf(kind, Unwrap(builder.layout))
            IN /\ device_pipelines' = Append(device_pipelines, p.pipeline)
               /\ built' = Some(p)
               /\ panic' = NoPanic
       ELSE /\ device_pipelines' =
                  Append(device_pipelines, [kind |-> kind, layout |-> None])
            /\ built' = None
            /\ panic' = "no layout provided"

\* The common body of RenderPipelineBuilder::build and
\* ComputePipelineBuilder::build on `builder`:
\*   let layout = self.layout.expect("no layout provided");
\*   <Kind>Pipeline{ pipeline: device.create_.._pipeline(..),
\*                   push_const_ranges: layout.push_const_ranges.clone() }
Build(kind, builder, call) ==
    /\ pb_call' = call
    /\ IF IsSome(builder.layout)
       THEN LET p == PipelineOf(kind, Unwrap(builder.layout))
            IN /\ device_pipelines' = Append(device_pipelines, p.pipeline)
               /\ built' = Some(p)
               /\ panic' = NoPanic
       ELSE /\ panic' = "no layout provided"
            /\ built' = None
            /\ UNCHANGED device_pipelines

\* RenderPipelineBuilder::new. The model follows one pipeline builder at a time.
RpbNew ==
    /\ panic = NoPanic
    /\ rpb' = Some([layout |-> None])
    /\ cpb' = None
    /\ set_layouts' = <<>>
    /\ pb_call' = "RenderPipelineBuilder::new"
    /\ UNCHANGED <<device_pipelines, built, panic>>
    /\ UNCHANGED notPipe

\* RenderPipelineBuilder::set_layout
RpbSetLayout ==
    /\ panic = NoPanic
    /\ IsSome(rpb)
    /\ Len(set_layouts) < MaxSets
    /\ \E layout \in PipelineLayoutInputs :
          /\ rpb' = Some(SetLayout(Unwrap(rpb), layout))
          /\ set_layouts' = Append(set_layouts, layout)
    /\ pb_call' = "RenderPipelineBuilder::set_layout"
    /\ UNCHANGED <<cpb, device_pipelines, built, panic>>
    /\ UNCHANGED notPipe

\* RenderPipelineBuilder::build (consumes the builder)
RpbBuild ==
    /\ panic = NoPanic
    /\ IsSome(rpb)
    /\ Len(device_pipelines) < MaxPipelines
    /\ Build("render", Unwrap(rpb), "RenderPipelineBuilder::build")
    /\ rpb' = None
    /\ UNCHANGED <<cpb, set_layouts>>
    /\ UNCHANGED notPipe

\* ComputePipelineBuilder::new
CpbNew ==
    /\ panic = NoPanic
    /\ cpb' = Some([layout |-> None])
    /\ rpb' = None
    /\ set_layouts' = <<>>
    /\ pb_call' = "ComputePipelineBuilder::new"
    /\ UNCHANGED <<device_pipelines, built, panic>>
    /\ UNCHANGED notPipe

\* ComputePipelineBuilder::set_layout
CpbSetLayout ==
    /\ panic = NoPanic
    /\ IsSome(cpb)
    /\ Len(set_layouts) < MaxSets
    /\ \E layout \in PipelineLayoutInputs :
          /\ cpb' = Some(SetLayout(Unwrap(cpb), layout))
          /\ set_layouts' = Append(set_layouts, layout)
    /\ pb_call' = "ComputePipelineBuilder::set_layout"
    /\ UNCHANGED <<rpb, device_pipelines, built, panic>>
    /\ UNCHANGED notPipe

\* ComputePipelineBuilder::build (borrows the builder: it can build again)
CpbBuild ==
    /\ panic = NoPanic
    /\ IsSome(cpb)
    /\ Len(device_pipelines) < MaxPipelines
    /\ Build("compute", Unwrap(cpb), "ComputePipelineBuilder::build")
    /\ UNCHANGED <<rpb, cpb, set_layouts>>
    /\ UNCHANGED notPipe

PipeInit ==
    /\ rpb = None
    /\ cpb = None
    /\ set_layouts = <<>>
    /\ device_pipelines = <<>>
    /\ built = None
    /\ panic = NoPanic
    /\ pb_call = "none"

PipeNext == RpbNew \/ RpbSetLayout \/ RpbBuild \/ CpbNew \/ CpbSetLayout \/ CpbBuild

\* ------------------------------------------------ render and compute passes
\* The RenderPipelines and ComputePipelines handed to set_pipeline: each built
\* by a pipeline builder from a layout made by create.
RenderPipelineInputs == { PipelineOf("render", l) : l \in PipelineLayoutInputs }
ComputePipelineInputs == { PipelineOf("compute", l) : l \in PipelineLayoutInputs }

\* Push constants, as the bytes bytemuck::bytes_of gives for them.
PushConstInputs == { <<1, 2, 3, 4>>, <<5, 6, 7, 8, 9, 10, 11, 12>> }
BindGroupInputs == {"bind_group_a", "bind_group_b"}
OffsetsInputs == { <<>>, <<256>> }
BufferInputs == {"buffer_a", "buffer_b"}

\* All sequences over S of length at most n.
SeqsUpTo(S, n) == UNION { [1..k -> S] : k \in 0..n }

\* A mutant of NewRenderPassPipeline: the slot counter of the old value is kept.
NewRenderPassPipelineKeepIndex(old, pipeline) ==
    [pipeline |-> pipeline,
     vert_buffer_index |-> IF IsSome(old) THEN Unwrap(old).vert_buffer_index ELSE 0]

\* A mutant of NewRenderPassPipeline: the pipeline of the old value is kept.
NewRenderPassPipelineKeepOld(old, pipeline) ==
    [pipeline |-> IF IsSome(old) THEN Unwrap(old).pipeline ELSE pipeline,
     vert_buffer_index |-> 0]

\* RenderPassPipeline{ render_pass, pipeline, vert_buffer_index: 0 }, as both
\* RenderPass::set_pipeline and RenderPassPipeline::set_pipeline build it.
NewRenderPassPipeline(old, pipeline) ==
    [pipeline |-> pipeline, vert_buffer_index |-> 0]

\* A mutant of SetBindGroupsCmds: slots are counted from 1.
SetBindGroupsCmdsFromOne(bind_groups) ==
    [i \in 1..Len(bind_groups) |->
        [cmd |-> "set_bind_group", index |-> i,
         bind_group |-> bind_groups[i], offsets |-> <<>>]]

\* for (i, bind_group) in bind_groups.iter().enumerate(){
\*     render_pass.set_bind_group(i as u32, bind_group, &[]) }
\* (the k-th element, counted from 1, has enumerate index k - 1)
SetBindGroupsCmds(bind_groups) ==
    [k \in 1..Len(bind_groups) |->
        [cmd |-> "set_bind_group", index |-> k - 1,
         bind_group |-> bind_groups[k], offsets |-> <<>>]]

\* RenderPassBuilder::begin: the pass borrows the encoder mutably, so no other
\* pass is open on it.
RpBegin ==
    /\ open_pass = "none"
    /\ pass_panic = NoPanic
    /\ open_pass' = "render"
    /\ pass_call' = [op |-> "RenderPassBuilder::begin"]
    /\ emitted' = <<>>
    /\ UNCHANGED <<rp_current, rp_previous, rpp, cp_current, cp_previous, cpp,
                   pass_panic>>
    /\ UNCHANGED vb_bound
    /\ UNCHANGED notPass

\* ComputePass::new
CpNew ==
    /\ open_pass = "none"
    /\ pass_panic = NoPanic
    /\ open_pass' = "compute"
    /\ pass_call' = [op |-> "ComputePass::new"]
    /\ emitted' = <<>>
    /\ UNCHANGED <<rp_current, rp_previous, rpp, cp_current, cp_previous, cpp,
                   pass_panic>>
    /\ UNCHANGED vb_bound
    /\ UNCHANGED notPass

\* The pass in hand goes out of scope (drop), and its pass-pipeline with it.
PassDrop ==
    /\ open_pass # "none"
    /\ pass_panic = NoPanic
    /\ open_pass' = "none"
    /\ rp_current' = None
    /\ rp_previous' = None
    /\ rpp' = None
    /\ cp_current' = None
    /\ cp_previous' = None
    /\ cpp' = None
    /\ pass_call' = [op |-> "drop"]
    /\ emitted' = <<>>
    /\ UNCHANGED pass_panic
    /\ vb_bound' = <<>>
    /\ UNCHANGED notPass

\* RenderPass::set_pipeline: drops the RenderPassPipeline in hand, if any.
RpSetPipeline ==
    /\ open_pass = "render"
    /\ pass_panic = NoPanic
    /\ \E pipeline \in RenderPipelineInputs :
          /\ emitted' = <<[cmd |-> "set_pipeline", pipeline |-> pipeline.pipeline]>>
          /\ rp_current' = Some(pipeline.pipeline)
          /\ rp_previous' = rp_current
          /\ rpp' = Some(NewRenderPassPipeline(None, pipeline))
          /\ pass_call' = [op |-> "RenderPass::set_pipeline", pipeline |-> pipeline]
    /\ UNCHANGED <<open_pass, cp_current, cp_previous, cpp, pass_panic>>
    /\ vb_bound' = <<>>
    /\ UNCHANGED notPass

\* RenderPassPipeline::set_pipeline
RppSetPipeline ==
    /\ open_pass = "render"
    /\ pass_panic = NoPanic
    /\ IsSome(rpp)
    /\ \E pipeline \in RenderPipelineInputs :
          /\ emitted' = <<[cmd |-> "set_pipeline", pipeline |-> pipeline.pipeline]>>
          /\ rp_current' = Some(pipeline.pipeline)
          /\ rp_previous' = rp_current
          /\ rpp' = Some(NewRenderPassPipeline(rpp, pipeline))
          /\ pass_call' = [op |-> "RenderPassPipeline::set_pipeline",
                           pipeline |-> pipeline]
    /\ UNCHANGED <<open_pass, cp_current, cp_previous, cpp, pass_panic>>
    /\ vb_bound' = <<>>
    /\ UNCHANGED notPass

\* RenderPassPipeline::set_bind_group
RppSetBindGroup ==
    /\ open_pass = "render"
    /\ pass_panic = NoPanic
    /\ IsSome(rpp)
    /\ \E index \in 0..MaxIndex, bind_group \in BindGroupInputs,
          offsets \in OffsetsInputs :
          /\ emitted' = <<[cmd |-> "set_bind_group", index |-> index,
                           bind_group |-> bind_group, offsets |-> offsets]>>
          /\ pass_call' = [op |-> "RenderPassPipeline::set_bind_group",
                           index |-> index, bind_group |-> bind_group,
                           offsets |-> offsets]
    /\ UNCHANGED <<open_pass, rp_current, rp_previous, rpp, cp_current, cp_previous, cpp,
                   pass_panic>>
    /\ UNCHANGED vb_bound
    /\ UNCHANGED notPass

\* RenderPassPipeline::set_push_const. Indexing push_const_ranges out of bounds
\* panics before anything is recorded.
RppSetPushConst ==
    /\ open_pass = "render"
    /\ pass_panic = NoPanic
    /\ IsSome(rpp)
    /\ \E index \in 0..MaxIndex, constant \in PushConstInputs :
          LET ranges == Unwrap(rpp).pipeline.push_const_ranges
          IN /\ pass_call' = [op |-> "RenderPassPipeline::set_push_const",
                              index |-> index, constant |-> constant]
             /\ IF index < Len(ranges)
                THEN /\ emitted' = <<[cmd |-> "set_push_constants",
                                      stages |-> ranges[index + 1].stages,
                                      offset |-> ranges[index + 1].start,
                                      data |-> constant]>>
                     /\ UNCHANGED pass_panic
                ELSE /\ emitted' = <<>>
                     /\ pass_panic' = "index out of bounds"
    /\ UNCHANGED <<open_pass, rp_current, rp_previous, rpp, cp_current, cp_previous, cpp>>
    /\ UNCHANGED vb_bound
    /\ UNCHANGED notPass

\* RenderPassPipeline::set_bind_groups
RppSetBindGroups ==
    /\ open_pass = "render"
    /\ pass_panic = NoPanic
    /\ IsSome(rpp)
    /\ \E bind_groups \in SeqsUpTo(BindGroupInputs, MaxBindGroups) :
          /\ emitted' = SetBindGroupsCmds(bind_groups)
          /\ pass_call' = [op |-> "RenderPassPipeline::set_bind_groups",
                           bind_groups |-> bind_groups]
    /\ UNCHANGED <<open_pass, rp_current, rp_previous, rpp, cp_current, cp_previous, cpp,
                   pass_panic>>
    /\ UNCHANGED vb_bound
    /\ UNCHANGED notPass

\* RenderPassPipeline::set_vertex_buffer
RppSetVertexBuffer ==
    /\ open_pass = "render"
    /\ pass_panic = NoPanic
    /\ IsSome(rpp)
    /\ Len(vb_bound) < MaxBinds
    /\ \E index \in 0..(MaxIndex - 1), buffer_slice \in BufferInputs :
          /\ emitted' = <<[cmd |-> "set_vertex_buffer", index |-> index,
                           buffer_slice |-> buffer_slice]>>
          /\ rpp' = Some([Unwrap(rpp) EXCEPT !.vert_buffer_index = index + 1])
          /\ vb_bound' = Append(vb_bound, [op |-> "set", slot |-> index])
          /\ pass_call' = [op |-> "RenderPassPipeline::set_vertex_buffer",
                           index |-> index, buffer_slice |-> buffer_slice]
    /\ UNCHANGED <<open_pass, rp_current, rp_previous, cp_current, cp_previous, cpp, pass_panic>>
    /\ UNCHANGED notPass

\* RenderPassPipeline::push_vertex_buffer
RppPushVertexBuffer ==
    /\ open_pass = "render"
    /\ pass_panic = NoPanic
    /\ IsSome(rpp)
    /\ Len(vb_bound) < MaxBinds
    /\ Unwrap(rpp).vert_buffer_index < MaxIndex
    /\ \E buffer_slice \in BufferInputs :
          /\ emitted' = <<[cmd |-> "set_vertex_buffer",
                           index |-> Unwrap(rpp).vert_buffer_index,
                           buffer_slice |-> buffer_slice]>>
          /\ rpp' = Some([Unwrap(rpp) EXCEPT !.vert_buffer_index = @ + 1])
          /\ vb_bound' = Append(vb_bound, [op |-> "push",
                                            slot |-> Unwrap(rpp).vert_buffer_index])
          /\ pass_call' = [op |-> "RenderPassPipeline::push_vertex_buffer",
                           buffer_slice |-> buffer_slice]
    /\ UNCHANGED <<open_pass, rp_current, rp_previous, cp_current, cp_previous, cpp, pass_panic>>
    /\ UNCHANGED notPass

\* RenderPassPipeline::set_index_buffer
RppSetIndexBuffer ==
    /\ open_pass = "render"
    /\ pass_panic = NoPanic
    /\ IsSome(rpp)
    /\ \E buffer_slice \in BufferInputs, format \in {"Uint16", "Uint32"} :
          /\ emitted' = <<[cmd |-> "set_index_buffer",
                           buffer_slice |-> buffer_slice, format |-> format]>>
          /\ pass_call' = [op |-> "RenderPassPipeline::set_index_buffer",
                           buffer_slice |-> buffer_slice, format |-> format]
    /\ UNCHANGED <<open_pass, rp_current, rp_previous, rpp, cp_current, cp_previous, cpp,
                   pass_panic>>
    /\ UNCHANGED vb_bound
    /\ UNCHANGED notPass

\* A mutant of RppDraw: draw hands back a fresh RenderPassPipeline, as
\* set_pipeline does, so the slot counter starts again at 0.
RppDrawRestartsSlots ==
    /\ open_pass = "render"
    /\ pass_panic = NoPanic
    /\ IsSome(rpp)
    /\ \E vertices \in {<<0, 3>>}, instances \in {<<0, 1>>} :
          /\ emitted' = <<[cmd |-> "draw", vertices |-> vertices,
                           instances |-> instances]>>
          /\ pass_call' = [op |-> "RenderPassPipeline::draw",
                           vertices |-> vertices, instances |-> instances]
    /\ rpp' = Some([Unwrap(rpp) EXCEPT !.vert_buffer_index = 0])
    /\ UNCHANGED <<open_pass, rp_current, rp_previous, cp_current, cp_previous, cpp,
                   pass_panic>>
    /\ UNCHANGED vb_bound
    /\ UNCHANGED notPass

\* RenderPassPipeline::draw
RppDraw ==
    /\ open_pass = "render"
    /\ pass_panic = NoPanic
    /\ IsSome(rpp)
    /\ \E vertices \in {<<0, 3>>}, instances \in {<<0, 1>>} :
          /\ emitted' = <<[cmd |-> "draw", vertices |-> vertices,
                           instances |-> instances]>>
          /\ pass_call' = [op |-> "RenderPassPipeline::draw",
                           vertices |-> vertices, instances |-> instances]
    /\ UNCHANGED <<open_pass, rp_current, rp_previous, rpp, cp_current, cp_previous, cpp,
                   pass_panic>>
    /\ UNCHANGED vb_bound
    /\ UNCHANGED notPass

\* RenderPassPipeline::draw_indexed
RppDrawIndexed ==
    /\ open_pass = "render"
    /\ pass_panic = NoPanic
    /\ IsSome(rpp)
    /\ \E indices \in {<<0, 6>>}, base_vertex \in {0}, instances \in {<<0, 1>>} :
          /\ emitted' = <<[cmd |-> "draw_indexed", indices |-> indices,
                           base_vertex |-> base_vertex, instances |-> instances]>>
          /\ pass_call' = [op |-> "RenderPassPipeline::draw_indexed",
                           indices |-> indices, base_vertex |-> base_vertex,
                           instances |-> instances]
    /\ UNCHANGED <<open_pass, rp_current, rp_previous, rpp, cp_current, cp_previous, cpp,
                   pass_panic>>
    /\ UNCHANGED vb_bound
    /\ UNCHANGED notPass

\* ComputePass::set_pipeline: drops the ComputePassPipeline in hand, if any.
CpSetPipeline ==
    /\ open_pass = "compute"
    /\ pass_panic = NoPanic
    /\ \E pipeline \in ComputePipelineInputs :
          /\ emitted' = <<[cmd |-> "set_pipeline", pipeline |-> pipeline.pipeline]>>
          /\ cp_current' = Some(pipeline.pipeline)
          /\ cp_previous' = cp_current
          /\ cpp' = Some([pipeline |-> pipeline])
          /\ pass_call' = [op |-> "ComputePass::set_pipeline", pipeline |-> pipeline]
    /\ UNCHANGED <<open_pass, rp_current, rp_previous, rpp, pass_panic>>
    /\ UNCHANGED vb_bound
    /\ UNCHANGED notPass

\* ComputePassPipeline::set_pipeline
CppSetPipeline ==
    /\ open_pass = "compute"
    /\ pass_panic = NoPanic
    /\ IsSome(cpp)
    /\ \E pipeline \in ComputePipelineInputs :
          /\ emitted' = <<[cmd |-> "set_pipeline", pipeline |-> pipeline.pipeline]>>
          /\ cp_current' = Some(pipeline.pipeline)
          /\ cp_previous' = cp_current
          /\ cpp' = Some([pipeline |-> pipeline])
          /\ pass_call' = [op |-> "ComputePassPipeline::set_pipeline",
                           pipeline |-> pipeline]
    /\ UNCHANGED <<open_pass, rp_current, rp_previous, rpp, pass_panic>>
    /\ UNCHANGED vb_bound
    /\ UNCHANGED notPass

\* ComputePassPipeline::set_bind_group
CppSetBindGroup ==
    /\ open_pass = "compute"
    /\ pass_panic = NoPanic
    /\ IsSome(cpp)
    /\ \E index \in 0..MaxIndex, bind_group \in BindGroupInputs,
          offsets \in OffsetsInputs :
          /\ emitted' = <<[cmd |-> "set_bind_group", index |-> index,
                           bind_group |-> bind_group, offsets |-> offsets]>>
          /\ pass_call' = [op |-> "ComputePassPipeline::set_bind_group",
                           index |-> index, bind_group |-> bind_group,
                           offsets |-> offsets]
    /\ UNCHANGED <<open_pass, rp_current, rp_previous, rpp, cp_current, cp_previous, cpp,
                   pass_panic>>
    /\ UNCHANGED vb_bound
    /\ UNCHANGED notPass

\* ComputePassPipeline::set_push_const (a compute pass takes no stages)
CppSetPushConst ==
    /\ open_pass = "compute"
    /\ pass_panic = NoPanic
    /\ IsSome(cpp)
    /\ \E index \in 0..MaxIndex, constant \in PushConstInputs :
          LET ranges == Unwrap(cpp).pipeline.push_const_ranges
          IN /\ pass_call' = [op |-> "ComputePassPipeline::set_push_const",
                              index |-> index, constant |-> constant]
             /\ IF index < Len(ranges)
                THEN /\ emitted' = <<[cmd |-> "set_push_constants",
                                      offset |-> ranges[index + 1].start,
                                      data |-> constant]>>
                     /\ UNCHANGED pass_panic
                ELSE /\ emitted' = <<>>
                     /\ pass_panic' = "index out of bounds"
    /\ UNCHANGED <<open_pass, rp_current, rp_previous, rpp, cp_current, cp_previous, cpp>>
    /\ UNCHANGED vb_bound
    /\ UNCHANGED notPass

\* ComputePassPipeline::dispatch
CppDispatch ==
    /\ open_pass = "compute"
    /\ pass_panic = NoPanic
    /\ IsSome(cpp)
    /\ \E x \in {1, 8}, y \in {1}, z \in {1} :
          /\ emitted' = <<[cmd |-> "dispatch", x |-> x, y |-> y, z |-> z]>>
          /\ pass_call' = [op |-> "ComputePassPipeline::dispatch",
                           x |-> x, y |-> y, z |-> z]
    /\ UNCHANGED <<open_pass, rp_current, rp_previous, rpp, cp_current, cp_previous, cpp,
                   pass_panic>>
    /\ UNCHANGED vb_bound
    /\ UNCHANGED notPass

\* ComputePassPipeline::dispatch_indirect
CppDispatchIndirect ==
    /\ open_pass = "compute"
    /\ pass_panic = NoPanic
    /\ IsSome(cpp)
    /\ \E indirect_buffer \in BufferInputs, indirect_offset \in {0} :
          /\ emitted' = <<[cmd |-> "dispatch_indirect",
                           indirect_buffer |-> indirect_buffer,
                           indirect_offset |-> indirect_offset]>>
          /\ pass_call' = [op |-> "ComputePassPipeline::dispatch_indirect",
                           indirect_buffer |-> indirect_buffer,
                           indirect_offset |-> indirect_offset]
    /\ UNCHANGED <<open_pass, rp_current, rp_previous, rpp, cp_current, cp_previous, cpp,
                   pass_panic>>
    /\ UNCHANGED vb_bound
    /\ UNCHANGED notPass

\* A command encoder with no pass open on it.
PassInit ==
    /\ open_pass = "none"
    /\ rp_current = None
    /\ rp_previous = None
    /\ rpp = None
    /\ cp_current = None
    /\ cp_previous = None
    /\ cpp = None
    /\ pass_call = [op |-> "none"]
    /\ emitted = <<>>
    /\ pass_panic = NoPanic
    /\ vb_bound = <<>>

PassNext ==
    \/ RpBegin \/ CpNew \/ PassDrop
    \/ RpSetPipeline \/ RppSetPipeline \/ RppSetBindGroup \/ RppSetPushConst
    \/ RppSetBindGroups \/ RppSetVertexBuffer \/ RppPushVertexBuffer
    \/ RppSetIndexBuffer \/ RppDraw \/ RppDrawIndexed
    \/ CpSetPipeline \/ CppSetPipeline \/ CppSetBindGroup \/ CppSetPushConst
    \/ CppDispatch \/ CppDispatchIndirect

\* ------------------------------------------- framework.rs: ImguiFramework::run
\* One action is one call of the closure handed to event_loop.run.
SizeInputs == {"size_a", "size_b"}
\* wgpu::SurfaceError
SurfaceErrors == {"Timeout", "Outdated", "Lost", "OutOfMemory"}
\* What the render callback does with the &mut ControlFlow it is handed.
CallbackFlowInputs == {"keep", "Wait", "Exit"}

Step(step, arg) == [step |-> step, arg |-> arg]

\* The event handled, with defaults for what does not apply to it.
NoEvent ==
    [kind |-> "none", own |-> FALSE, size |-> "", consumed |-> FALSE,
     texture |-> "", render |-> "", cb_flow |-> ""]

\* A mutant of RenderResultSteps: every error is only reported.
RenderResultStepsReportOnly(result) ==
    IF result = "Ok" THEN <<>> ELSE <<Step("eprintln", result)>>

\* match render_cb(..){ Ok(_) => {}
\*     Err(Lost) => self.winit.resize(self.winit.size),
\*     Err(OutOfMemory) => *control_flow = ControlFlow::Exit,
\*     Err(e) => eprintln!("{:?}", e) }
RenderResultSteps(result) ==
    CASE result = "Ok" -> <<>>
      [] result = "Lost" -> <<Step("winit.resize", "winit.size")>>
      [] result = "OutOfMemory" -> <<Step("control_flow =", "Exit")>>
      [] OTHER -> <<Step("eprintln", result)>>

\* The control flow a sequence of steps leaves, starting from `flow`.
RECURSIVE FlowAfter(_, _)
FlowAfter(flow, steps) ==
    IF steps = <<>> THEN flow
    ELSE FlowAfter(IF Head(steps).step = "control_flow =" THEN Head(steps).arg
                   ELSE IF Head(steps).step = "render_cb sets control_flow"
                        THEN Head(steps).arg
                        ELSE flow,
                   Tail(steps))

\* The size winit.resize was last called with after `steps`, `size` before.
RECURSIVE ResizedAfter(_, _)
ResizedAfter(size, steps) ==
    IF steps = <<>> THEN size
    ELSE ResizedAfter(IF Head(steps).step = "winit.resize" THEN Head(steps).arg
                      ELSE size,
                      Tail(steps))

\* Every call starts with imgui.platform.handle_event.
HandleEvent == <<Step("platform.handle_event", "")>>

\* Whether a redraw is requested after `steps`, `requested` before.
RECURSIVE RequestedAfter(_, _)
RequestedAfter(requested, steps) ==
    IF steps = <<>> THEN requested
    ELSE RequestedAfter(requested \/ Head(steps).step = "window.request_redraw",
                        Tail(steps))

\* A mutant of BuiltinSteps: every window event that is not a resize exits.
BuiltinStepsExitOnAny(kind, size) ==
    CASE kind \in {"Resized", "ScaleFactorChanged"} ->
            <<Step("winit.resize", size), Step("resize", size)>>
      [] OTHER -> <<Step("control_flow =", "Exit")>>

\* A mutant of BuiltinSteps: the resize callback runs before winit.resize.
BuiltinStepsCallbackFirst(kind, size) ==
    CASE kind = "CloseRequested" -> <<Step("control_flow =", "Exit")>>
      [] kind \in {"Resized", "ScaleFactorChanged"} ->
            <<Step("resize", size), Step("winit.resize", size)>>
      [] OTHER -> <<>>

\* The inner match of the WindowEvent arm, taken when event_cb returned false.
BuiltinSteps(kind, size) ==
    CASE kind = "CloseRequested" -> <<Step("control_flow =", "Exit")>>
      [] kind \in {"Resized", "ScaleFactorChanged"} ->
            <<Step("winit.resize", size), Step("resize", size)>>
      [] OTHER -> <<>>

\* A mutant of WindowEventSteps: the built-in handling runs whatever event_cb
\* returned.
WindowEventStepsIgnoreConsumed(kind, size, consumed) ==
    HandleEvent
    \o <<Step("event_cb", IF consumed THEN "true" ELSE "false")>>
    \o BuiltinSteps(kind, size)

\* The WindowEvent arm for the own window: if !event_cb(..){ match event{..} }
WindowEventSteps(kind, size, consumed) ==
    HandleEvent
    \o <<Step("event_cb", IF consumed THEN "true" ELSE "false")>>
    \o (IF consumed THEN <<>> ELSE BuiltinSteps(kind, size))

\* A mutant of RedrawSteps: a failed get_current_texture is reported and the
\* arm goes on.
RedrawStepsNoReturn(texture, render, cb_flow) ==
    HandleEvent
    \o <<Step("get_current_texture", texture)>>
    \o (IF texture # "Ok" THEN <<Step("eprintln", texture)>> ELSE <<>>)
    \o <<Step("create_view", ""),
         Step("create_command_encoder", "imgui_encoder"),
         Step("render_cb", render)>>
    \o (IF cb_flow = "keep" THEN <<>>
        ELSE <<Step("render_cb sets control_flow", cb_flow)>>)
    \o RenderResultSteps(render)
    \o <<Step("queue.submit", ""),
         Step("present", ""),
         Step("winit.update", "")>>

\* A mutant of RedrawSteps: after a render error nothing is submitted or
\* presented.
RedrawStepsSkipOnError(texture, render, cb_flow) ==
    IF texture # "Ok"
    THEN HandleEvent
         \o <<Step("get_current_texture", texture),
              Step("eprintln", texture)>>
    ELSE HandleEvent
         \o <<Step("get_current_texture", "Ok"),
              Step("create_view", ""),
              Step("create_command_encoder", "imgui_encoder"),
              Step("render_cb", render)>>
         \o (IF cb_flow = "keep" THEN <<>>
             ELSE <<Step("render_cb sets control_flow", cb_flow)>>)
         \o RenderResultSteps(render)
         \o (IF render = "Ok"
             THEN <<Step("queue.submit", ""),
                    Step("present", ""),
                    Step("winit.update", "")>>
             ELSE <<>>)

\* The RedrawRequested arm for the own window.
RedrawSteps(texture, render, cb_flow) ==
    IF texture # "Ok"
    THEN HandleEvent
         \o <<Step("get_current_texture", texture),
              Step("eprintln", texture)>>
    ELSE HandleEvent
         \o <<Step("get_current_texture", "Ok"),
              Step("create_view", ""),
              Step("create_command_encoder", "imgui_encoder"),
              Step("render_cb", render)>>
         \o (IF cb_flow = "keep" THEN <<>>
             ELSE <<Step("render_cb sets control_flow", cb_flow)>>)
         \o RenderResultSteps(render)
         \o <<Step("queue.submit", ""),
              Step("present", ""),
              Step("winit.update", "")>>

\* The MainEventsCleared arm.
MainEventsClearedSteps ==
    HandleEvent \o <<Step("window.request_redraw", "")>>

\* A mutant of OtherEventSteps: a RedrawEventsCleared requests a redraw too.
OtherEventStepsRequestRedraw(kind) ==
    IF kind = "RedrawEventsCleared"
    THEN HandleEvent \o <<Step("window.request_redraw", "")>>
    ELSE HandleEvent

\* The `_ => {}` arm.
OtherEventSteps(kind) == HandleEvent

\* Event::WindowEvent{event, window_id} if window_id == self.winit.window.id()
FwWindowEvent ==
    /\ control_flow # "Exit"
    /\ \E kind \in {"CloseRequested", "Resized", "ScaleFactorChanged", "KeyboardInput"},
          size \in SizeInputs, consumed \in BOOLEAN :
          LET has_size == kind \in {"Resized", "ScaleFactorChanged"}
              steps == WindowEventSteps(kind, size, consumed)
          IN /\ (~has_size => size = "size_a")
             /\ fw_event' = [NoEvent EXCEPT !.kind = kind, !.own = TRUE,
                                 !.size = IF has_size THEN size ELSE "",
                                 !.consumed = consumed]
             /\ fw_trace' = steps
             /\ control_flow' = FlowAfter(control_flow, steps)
             /\ resized_to' = ResizedAfter(resized_to, steps)
             /\ redraw_requested' = RequestedAfter(redraw_requested, steps)
    /\ UNCHANGED notFw

\* Event::RedrawRequested(window_id) if window_id == self.winit.window.id().
\* The redraw that was requested has come.
FwRedrawRequested ==
    /\ control_flow # "Exit"
    /\ \E texture \in {"Ok"} \cup SurfaceErrors, render \in {"Ok"} \cup SurfaceErrors,
          cb_flow \in CallbackFlowInputs :
          LET steps == RedrawSteps(texture, render, cb_flow)
          IN /\ (texture # "Ok" => render = "Ok" /\ cb_flow = "keep")
             /\ fw_event' = [NoEvent EXCEPT !.kind = "RedrawRequested", !.own = TRUE,
                                 !.texture = texture,
                                 !.render = IF texture = "Ok" THEN render ELSE "",
                                 !.cb_flow = IF texture = "Ok" THEN cb_flow ELSE ""]
             /\ fw_trace' = steps
             /\ control_flow' = FlowAfter(control_flow, steps)
             /\ resized_to' = ResizedAfter(resized_to, steps)
             /\ redraw_requested' = RequestedAfter(FALSE, steps)
    /\ UNCHANGED notFw

\* Event::MainEventsCleared
FwMainEventsCleared ==
    /\ control_flow # "Exit"
    /\ LET steps == MainEventsClearedSteps
       IN /\ fw_event' = [NoEvent EXCEPT !.kind = "MainEventsCleared"]
          /\ fw_trace' = steps
          /\ control_flow' = FlowAfter(control_flow, steps)
          /\ resized_to' = ResizedAfter(resized_to, steps)
          /\ redraw_requested' = RequestedAfter(redraw_requested, steps)
    /\ UNCHANGED notFw

\* Every other event, the `_ => {}` arm: a window event or a redraw request
\* of another window (the match guards fail), or an event of another kind.
FwOtherEvent ==
    /\ control_flow # "Exit"
    /\ \E kind \in {"CloseRequested", "Resized", "ScaleFactorChanged", "KeyboardInput",
                     "RedrawRequested", "NewEvents", "RedrawEventsCleared"},
          size \in SizeInputs :
          LET steps == OtherEventSteps(kind)
          IN /\ (kind \notin {"Resized", "ScaleFactorChanged"} => size = "size_a")
             /\ fw_event' = [NoEvent EXCEPT !.kind = kind,
                                 !.size = IF kind \in {"Resized", "ScaleFactorChanged"}
                                          THEN size ELSE ""]
             /\ fw_trace' = steps
             /\ control_flow' = FlowAfter(control_flow, steps)
             /\ resized_to' = ResizedAfter(resized_to, steps)
             /\ redraw_requested' = RequestedAfter(redraw_requested, steps)
    /\ UNCHANGED notFw

\* Event::LoopDestroyed, the last event winit sends once the flow is Exit.
FwLoopDestroyed ==
    /\ control_flow = "Exit"
    /\ fw_event.kind # "LoopDestroyed"
    /\ fw_event' = [NoEvent EXCEPT !.kind = "LoopDestroyed"]
    /\ fw_trace' = HandleEvent
    /\ UNCHANGED <<control_flow, redraw_requested, resized_to>>
    /\ UNCHANGED notFw

\* ImguiFramework::run has handed its closure to event_loop.run.
FwInit ==
    /\ control_flow = "Poll"
    /\ redraw_requested = FALSE
    /\ resized_to = ""
    /\ fw_event = NoEvent
    /\ fw_trace = <<>>

FwNext ==
    \/ FwWindowEvent \/ FwRedrawRequested \/ FwMainEventsCleared
    \/ FwOtherEvent \/ FwLoopDestroyed

\* ------------------------------------------------- shader.rs: ShaderModule
\* wgpu::ShaderStages: any set of the stage flags.
ShaderStages == SUBSET {"VERTEX", "FRAGMENT", "COMPUTE"}
\* What the file system answers for the path handed to load_glsl: no such
\* file, a file that exists and cannot be read as a string, a readable file.
FileInputs == {"missing", "unreadable", "readable"}
\* What shaderc answers: whether Compiler::new gives a compiler, and whether
\* the source compiles.
CompilerInputs == {"Some", "None"}
CompileInputs == {"Ok", "Err"}

Result(kind, msg) == [kind |-> kind, msg |-> msg]

\* A mutant of StageMacros: only the macro of the requested stage is defined.
StageMacrosOnlyRequested(stage) ==
    { m \in { <<"VERTEX_SHADER", IF stage = {"VERTEX"} THEN "1" ELSE "0">>,
              <<"FRAGMENT_SHADER", IF stage = {"FRAGMENT"} THEN "1" ELSE "0">>,
              <<"COMPUTE_SHADER", IF stage = {"COMPUTE"} THEN "1" ELSE "0">> } :
        m[2] = "1" }

\* options.add_macro_definition(NAME, Some(if stage == ShaderStages::X {"1"} else {"0"}))
\* for VERTEX_SHADER, FRAGMENT_SHADER and COMPUTE_SHADER.
StageMacros(stage) ==
    { <<"VERTEX_SHADER", IF stage = {"VERTEX"} THEN "1" ELSE "0">>,
      <<"FRAGMENT_SHADER", IF stage = {"FRAGMENT"} THEN "1" ELSE "0">>,
      <<"COMPUTE_SHADER", IF stage = {"COMPUTE"} THEN "1" ELSE "0">> }

\* A mutant of ShaderKind: a stage is matched by the flags it contains.
ShaderKindByContains(stage) ==
    CASE "VERTEX" \in stage -> "Vertex"
      [] "FRAGMENT" \in stage -> "Fragment"
      [] "COMPUTE" \in stage -> "Compute"
      [] OTHER -> "unsupported"

\* let kind = match stage { VERTEX => Vertex, FRAGMENT => Fragment,
\*     COMPUTE => Compute, _ => return Err(anyhow!("Shader stage not supported")) }
ShaderKind(stage) ==
    CASE stage = {"VERTEX"} -> "Vertex"
      [] stage = {"FRAGMENT"} -> "Fragment"
      [] stage = {"COMPUTE"} -> "Compute"
      [] OTHER -> "unsupported"

\* The part from_src_glsl and load_glsl share, from Compiler::new on: what is
\* returned, the macros defined and the steps taken.
CompileGlsl(stage, compiler, compile) ==
    IF compiler = "None"
    THEN [result |-> Result("Err", "error creating compiler"),
          macros |-> {},
          trace |-> <<Step("Compiler::new", "None")>>]
    ELSE IF ShaderKind(stage) = "unsupported"
    THEN [result |-> Result("Err", "Shader stage not supported"),
          macros |-> StageMacros(stage),
          trace |-> <<Step("Compiler::new", "Some"),
                      Step("add_macro_definition", "")>>]
    ELSE IF compile = "Err"
    THEN [result |-> Result("Err", "shaderc error"),
          macros |-> StageMacros(stage),
          trace |-> <<Step("Compiler::new", "Some"),
                      Step("add_macro_definition", ""),
                      Step("compile_into_spirv", ShaderKind(stage))>>]
    ELSE [result |-> Result("Ok", ""),
          macros |-> StageMacros(stage),
          trace |-> <<Step("Compiler::new", "Some"),
                      Step("add_macro_definition", ""),
                      Step("compile_into_spirv", ShaderKind(stage)),
                      Step("create_shader_module", "")>>]

\* ShaderModule::load_glsl: canonicalize(path).unwrap() comes first and panics
\* for a path that does not exist; then read_to_string, whose error is returned.
LoadGlsl(file, stage, compiler, compile) ==
    IF file = "missing"
    THEN [result |-> Result("panic", "called Result::unwrap() on an Err value"),
          macros |-> {},
          trace |-> <<Step("canonicalize", "Err")>>]
    ELSE IF file = "unreadable"
    THEN [result |-> Result("Err", "Failed to read shader file"),
          macros |-> {},
          trace |-> <<Step("canonicalize", "Ok"), Step("read_to_string", "Err")>>]
    ELSE LET c == CompileGlsl(stage, compiler, compile)
         IN [c EXCEPT !.trace = <<Step("canonicalize", "Ok"),
                                  Step("read_to_string", "Ok")>> \o @]

\* The number of shader modules a call created.
ModulesCreated(trace) ==
    Cardinality({k \in 1..Len(trace) : trace[k].step = "create_shader_module"})

\* shaderc::ShaderKind values handed to shader_with_shaderc.
ShadercKinds == {"Vertex", "Fragment", "Compute", "Geometry"}

\* pipeline.rs, shader_with_shaderc:
\* options.add_macro_definition(NAME, Some(if kind == ShaderKind::X {"1"} else {"0"}))
KindMacros(kind) ==
    { <<"VERTEX_SHADER", IF kind = "Vertex" THEN "1" ELSE "0">>,
      <<"FRAGMENT_SHADER", IF kind = "Fragment" THEN "1" ELSE "0">>,
      <<"COMPUTE_SHADER", IF kind = "Compute" THEN "1" ELSE "0">> }

\* pipeline.rs, shader_with_shaderc: every kind is handed on to shaderc.
WithShaderc(kind, compiler, compile) ==
    IF compiler = "None"
    THEN [result |-> Result("Err", "error creating compiler"),
          macros |-> {},
          trace |-> <<Step("Compiler::new", "None")>>]
    ELSE IF compile = "Err"
    THEN [result |-> Result("Err", "shaderc error"),
          macros |-> KindMacros(kind),
          trace |-> <<Step("Compiler::new", "Some"),
                      Step("add_macro_definition", ""),
                      Step("compile_into_spirv", kind)>>]
    ELSE [result |-> Result("Ok", ""),
          macros |-> KindMacros(kind),
          trace |-> <<Step("Compiler::new", "Some"),
                      Step("add_macro_definition", ""),
                      Step("compile_into_spirv", kind),
                      Step("create_shader_module", "")>>]

\* shader_with_shaderc
ShWithShaderc ==
    /\ sh_result.kind # "panic"
    /\ shader_modules < MaxModules
    /\ \E kind \in ShadercKinds, compiler \in CompilerInputs,
          compile \in CompileInputs :
          LET out == WithShaderc(kind, compiler, compile)
          IN /\ sh_call' = [fn |-> "shader_with_shaderc", file |-> "", stage |-> {},
                            compiler |-> compiler, compile |-> compile,
                            kind |-> kind, path |-> <<>>]
             /\ sh_result' = out.result
             /\ sh_macros' = out.macros
             /\ sh_trace' = out.trace
             /\ shader_modules' = shader_modules + ModulesCreated(out.trace)
    /\ UNCHANGED notSh

\* The paths handed to shader_load, as sequences of path pieces: "/" parts
\* components, "." is the dot, anything else is a run of other characters.
PathInputs ==
    { <<"shader", ".", "glsl">>,
      <<"shader", ".", "wgsl">>,
      <<"shader", ".", "spv">>,
      <<"shader", ".", "GLSL">>,
      <<"shader">>,
      <<"shader", ".">>,
      <<".", "glsl">>,
      <<"dir", ".", "glsl", "/", "shader">>,
      <<"shader", ".", "glsl", ".", "wgsl">> }

\* What the file system answers to shader_load: File::open or fs::metadata
\* fails, the read fails, the bytes are not UTF-8, or the text is read.
LoadFileInputs == {"open_err", "read_err", "not_utf8", "readable"}

\* naga::ShaderStage
NagaStages == {"Vertex", "Fragment", "Compute"}

\* The largest element of a non-empty set of numbers.
MaxOf(S) == CHOOSE m \in S : \A x \in S : x <= m

\* Path::file_name for these paths: the pieces after the last "/".
FileName(path) ==
    LET slashes == { k \in 1..Len(path) : path[k] = "/" }
    IN IF slashes = {} THEN path
       ELSE SubSeq(path, MaxOf(slashes) + 1, Len(path))

\* Path::new(path).extension(): the part of the file name after its last dot;
\* None if there is no dot or nothing stands before the last dot.
Extension(path) ==
    LET name == FileName(path)
        dots == { k \in 1..Len(name) : name[k] = "." }
    IN IF dots = {} THEN None
       ELSE IF MaxOf(dots) = 1 THEN None
       ELSE Some(SubSeq(name, MaxOf(dots) + 1, Len(name)))

\* A mutant of ShaderLoad: the extension is examined before the file is
\* opened and read.
ShaderLoadExtensionFirst(path, file, stage) ==
    LET extension == Extension(path)
    IN IF ~IsSome(extension)
       THEN [result |-> Result("Err", "No extension"), macros |-> {},
             trace |-> <<Step("extension", "None")>>]
       ELSE IF Unwrap(extension) \notin {<<"glsl">>, <<"wgsl">>}
       THEN [result |-> Result("Err", "Unknown Extension"), macros |-> {},
             trace |-> <<Step("extension", "Some")>>]
       ELSE IF file \in {"open_err", "read_err"}
       THEN [result |-> Result("Err", "io error"), macros |-> {},
             trace |-> <<Step("extension", "Some"), Step("File::open", "Err")>>]
       ELSE IF file = "not_utf8"
       THEN [result |-> Result("Err", "invalid utf-8"), macros |-> {},
             trace |-> <<Step("extension", "Some"), Step("File::open", "Ok"),
                         Step("read", "Ok"), Step("from_utf8", "Err")>>]
       ELSE [result |-> Result("Ok", ""), macros |-> {},
             trace |-> <<Step("extension", "Some"), Step("File::open", "Ok"),
                         Step("read", "Ok"), Step("from_utf8", "Ok"),
                         IF Unwrap(extension) = <<"glsl">>
                         THEN Step("ShaderSource::Glsl", stage)
                         ELSE Step("ShaderSource::Wgsl", ""),
                         Step("create_shader_module", "")>>]

\* pipeline.rs, shader_load: File::open(path)?, fs::metadata(path)?,
\* f.read(..)?, str::from_utf8(..)?, then extension().ok_or("No extension")?
\* and the match on it.
ShaderLoad(path, file, stage) ==
    IF file = "open_err"
    THEN [result |-> Result("Err", "io error"), macros |-> {},
          trace |-> <<Step("File::open", "Err")>>]
    ELSE IF file = "read_err"
    THEN [result |-> Result("Err", "io error"), macros |-> {},
          trace |-> <<Step("File::open", "Ok"), Step("read", "Err")>>]
    ELSE IF file = "not_utf8"
    THEN [result |-> Result("Err", "invalid utf-8"), macros |-> {},
          trace |-> <<Step("File::open", "Ok"), Step("read", "Ok"),
                      Step("from_utf8", "Err")>>]
    ELSE LET extension == Extension(path)
             read == <<Step("File::open", "Ok"), Step("read", "Ok"),
                       Step("from_utf8", "Ok")>>
         IN IF ~IsSome(extension)
            THEN [result |-> Result("Err", "No extension"), macros |-> {},
                  trace |-> read \o <<Step("extension", "None")>>]
            ELSE IF Unwrap(extension) = <<"glsl">>
            THEN [result |-> Result("Ok", ""), macros |-> {},
                  trace |-> read \o <<Step("extension", "Some"),
                                      Step("ShaderSource::Glsl", stage),
                                      Step("create_shader_module", "")>>]
            ELSE IF Unwrap(extension) = <<"wgsl">>
            THEN [result |-> Result("Ok", ""), macros |-> {},
                  trace |-> read \o <<Step("extension", "Some"),
                                      Step("ShaderSource::Wgsl", ""),
                                      Step("create_shader_module", "")>>]
            ELSE [result |-> Result("Err", "Unknown Extension"), macros |-> {},
                  trace |-> read \o <<Step("extension", "Some")>>]

\* shader_load
ShShaderLoad ==
    /\ sh_result.kind # "panic"
    /\ shader_modules < MaxModules
    /\ \E path \in PathInputs, file \in LoadFileInputs, stage \in NagaStages :
          LET out == ShaderLoad(path, file, stage)
          IN /\ sh_call' = [fn |-> "shader_load", file |-> file, stage |-> {},
                            compiler |-> "", compile |-> "",
                            kind |-> stage, path |-> path]
             /\ sh_result' = out.result
             /\ sh_macros' = out.macros
             /\ sh_trace' = out.trace
             /\ shader_modules' = shader_modules + ModulesCreated(out.trace)
    /\ UNCHANGED notSh

\* ShaderModule::from_src_glsl
ShFromSrcGlsl ==
    /\ sh_result.kind # "panic"
    /\ shader_modules < MaxModules
    /\ \E stage \in ShaderStages, compiler \in CompilerInputs,
          compile \in CompileInputs :
          LET out == CompileGlsl(stage, compiler, compile)
          IN /\ sh_call' = [fn |-> "from_src_glsl", file |-> "", stage |-> stage,
                            compiler |-> compiler, compile |-> compile,
                            kind |-> "", path |-> <<>>]
             /\ sh_result' = out.result
             /\ sh_macros' = out.macros
             /\ sh_trace' = out.trace
             /\ shader_modules' = shader_modules + ModulesCreated(out.trace)
    /\ UNCHANGED notSh

\* ShaderModule::load_glsl
ShLoadGlsl ==
    /\ sh_result.kind # "panic"
    /\ shader_modules < MaxModules
    /\ \E file \in FileInputs, stage \in ShaderStages, compiler \in CompilerInputs,
          compile \in CompileInputs :
          LET out == LoadGlsl(file, stage, compiler, compile)
          IN /\ sh_call' = [fn |-> "load_glsl", file |-> file, stage |-> stage,
                            compiler |-> compiler, compile |-> compile,
                            kind |-> "", path |-> <<>>]
             /\ sh_result' = out.result
             /\ sh_macros' = out.macros
             /\ sh_trace' = out.trace
             /\ shader_modules' = shader_modules + ModulesCreated(out.trace)
    /\ UNCHANGED notSh

ShInit ==
    /\ shader_modules = 0
    /\ sh_call = [fn |-> "none", file |-> "", stage |-> {},
                  compiler |-> "", compile |-> "", kind |-> "", path |-> <<>>]
    /\ sh_result = Result("none", "")
    /\ sh_macros = {}
    /\ sh_trace = <<>>

ShNext == ShFromSrcGlsl \/ ShLoadGlsl \/ ShWithShaderc \/ ShShaderLoad

\* ------------------------------------------------ framework.rs: ImguiContext::ui
\* A mutant of UiOrder: the pass is begun before the closure is called.
UiOrderPassFirst ==
    <<"prepare_frame", "update_delta_time", "frame", "begin", "f", "render",
      "drop", "return">>

\* The statements of ImguiContext::ui, in the order of its body.
UiOrder ==
    <<"prepare_frame", "update_delta_time", "frame", "f", "begin", "render",
      "drop", "return">>

\* The statement ui runs next, "" outside ui and while f runs.
UiAt == IF ui_pc = 0 \/ ui_f_pass # "out" THEN "" ELSE UiOrder[ui_pc]

\* A call of ImguiContext::ui begins.
UiEnter ==
    /\ ui_pc = 0
    /\ ui_panic = NoPanic
    /\ ui_calls < MaxUiCalls
    /\ ui_pc' = 1
    /\ ui_pass' = "none"
    /\ ui_trace' = <<>>
    /\ ui_calls' = ui_calls + 1
    /\ UNCHANGED <<ui_f_pass, ui_panic>>
    /\ UNCHANGED notUi

\* self.platform.prepare_frame(..).expect("Failed to prepare frame.")
UiPrepareFrame ==
    /\ UiAt = "prepare_frame"
    /\ \E outcome \in {"Ok", "Err"} :
          /\ ui_trace' = Append(ui_trace, Step("prepare_frame", outcome))
          /\ IF outcome = "Ok"
             THEN ui_pc' = ui_pc + 1 /\ UNCHANGED ui_panic
             ELSE ui_pc' = 0 /\ ui_panic' = "Failed to prepare frame."
    /\ UNCHANGED <<ui_pass, ui_f_pass, ui_calls>>
    /\ UNCHANGED notUi

\* self.context.io_mut().update_delta_time(winit_context.dt)
UiUpdateDeltaTime ==
    /\ UiAt = "update_delta_time"
    /\ ui_trace' = Append(ui_trace, Step("update_delta_time", "dt"))
    /\ ui_pc' = ui_pc + 1
    /\ UNCHANGED <<ui_pass, ui_f_pass, ui_calls, ui_panic>>
    /\ UNCHANGED notUi

\* let ui = self.context.frame()
UiFrame ==
    /\ UiAt = "frame"
    /\ ui_trace' = Append(ui_trace, Step("frame", ""))
    /\ ui_pc' = ui_pc + 1
    /\ UNCHANGED <<ui_pass, ui_f_pass, ui_calls, ui_panic>>
    /\ UNCHANGED notUi

\* f(imgui_render_context, winit_context, encoder): the closure is entered.
UiCallF ==
    /\ UiAt = "f"
    /\ ui_f_pass' = "in"
    /\ ui_trace' = Append(ui_trace, Step("f", "called"))
    /\ UNCHANGED <<ui_pc, ui_pass, ui_calls, ui_panic>>
    /\ UNCHANGED notUi

\* Inside f: the closure begins a pass of its own on the encoder it was handed.
UiFBeginPass ==
    /\ ui_pc # 0
    /\ ui_f_pass = "in"
    /\ Cardinality({k \in 1..Len(ui_trace) : ui_trace[k] = Step("f", "begin_pass")})
          < MaxFPasses
    /\ ui_f_pass' = "pass"
    /\ ui_trace' = Append(ui_trace, Step("f", "begin_pass"))
    /\ UNCHANGED <<ui_pc, ui_pass, ui_calls, ui_panic>>
    /\ UNCHANGED notUi

\* Inside f: the closure's pass ends (it borrows the encoder, so it cannot
\* outlive the closure's borrow).
UiFEndPass ==
    /\ ui_pc # 0
    /\ ui_f_pass = "pass"
    /\ ui_f_pass' = "in"
    /\ ui_trace' = Append(ui_trace, Step("f", "end_pass"))
    /\ UNCHANGED <<ui_pc, ui_pass, ui_calls, ui_panic>>
    /\ UNCHANGED notUi

\* f returns.
UiFReturn ==
    /\ ui_pc # 0
    /\ ui_f_pass = "in"
    /\ ui_f_pass' = "out"
    /\ ui_trace' = Append(ui_trace, Step("f", "returned"))
    /\ ui_pc' = ui_pc + 1
    /\ UNCHANGED <<ui_pass, ui_calls, ui_panic>>
    /\ UNCHANGED notUi

\* RenderPassBuilder::new().push_color_attachment(dst.color_attachment_load())
\*     .begin(encoder, None)
UiBeginPass ==
    /\ UiAt = "begin"
    /\ ui_pass' = "open"
    /\ ui_trace' = Append(ui_trace, Step("begin", "dst.color_attachment_load"))
    /\ ui_pc' = ui_pc + 1
    /\ UNCHANGED <<ui_f_pass, ui_calls, ui_panic>>
    /\ UNCHANGED notUi

\* self.renderer.render(ui.render(), .., &mut rpass.render_pass)
\*     .expect("Rendering Failed"): the panic unwinds and drops rpass.
UiRender ==
    /\ UiAt = "render"
    /\ \E outcome \in {"Ok", "Err"} :
          IF outcome = "Ok"
          THEN /\ ui_trace' = Append(ui_trace, Step("render", "Ok"))
               /\ ui_pc' = ui_pc + 1
               /\ UNCHANGED <<ui_pass, ui_panic>>
          ELSE /\ ui_trace' = ui_trace \o <<Step("render", "Err"), Step("drop", "unwind")>>
               /\ ui_pc' = 0
               /\ ui_pass' = IF ui_pass = "open" THEN "ended" ELSE ui_pass
               /\ ui_panic' = "Rendering Failed"
    /\ UNCHANGED <<ui_f_pass, ui_calls>>
    /\ UNCHANGED notUi

\* drop(rpass)
UiDropPass ==
    /\ UiAt = "drop"
    /\ ui_pass' = IF ui_pass = "open" THEN "ended" ELSE ui_pass
    /\ ui_trace' = Append(ui_trace, Step("drop", ""))
    /\ ui_pc' = ui_pc + 1
    /\ UNCHANGED <<ui_f_pass, ui_calls, ui_panic>>
    /\ UNCHANGED notUi

\* ui returns.
UiReturn ==
    /\ UiAt = "return"
    /\ ui_trace' = Append(ui_trace, Step("return", ""))
    /\ ui_pc' = 0
    /\ UNCHANGED <<ui_pass, ui_f_pass, ui_calls, ui_panic>>
    /\ UNCHANGED notUi

UiInit ==
    /\ ui_pc = 0
    /\ ui_pass = "none"
    /\ ui_f_pass = "out"
    /\ ui_trace = <<>>
    /\ ui_calls = 0
    /\ ui_panic = NoPanic

UiNext ==
    \/ UiEnter \/ UiPrepareFrame \/ UiUpdateDeltaTime \/ UiFrame
    \/ UiCallF \/ UiFBeginPass \/ UiFEndPass \/ UiFReturn
    \/ UiBeginPass \/ UiRender \/ UiDropPass \/ UiReturn

\* --------------------------------------------------- texture.rs: Texture
\* wgpu::TextureFormat values handed in as `format`.
TextureFormats ==
    {"Rgba8Unorm", "Rgba8UnormSrgb", "Bgra8Unorm", "Bgra8UnormSrgb",
     "R8Unorm", "Rgba16Float", "Depth32Float"}

\* What the file system answers to Texture::load_from_path: File::open or
\* fs::metadata fails, the read fails, or the bytes are read.
TextureFileInputs == {"open_err", "read_err", "readable"}

\* The bytes handed to image::load_from_memory: an encoded image or not.
BytesInputs == {"image", "garbage"}

\* A mutant of FromImage: every other format is converted like Rgba8Unorm.
FromImageAnyFormat(format) ==
    [result |-> Result("Ok", ""),
     trace |-> <<Step("flipv", ""),
                 Step(IF format \in {"Bgra8Unorm", "Bgra8UnormSrgb"}
                      THEN "to_bgra8" ELSE "to_rgba8", ""),
                 Step("create_texture", format),
                 Step("write_texture", ""),
                 Step("create_view", format),
                 Step("create_sampler", "")>>]

\* Texture::from_image: the match on format comes first and returns
\* Err("Format not supported") for every format but the four 8-bit ones.
FromImage(format) ==
    IF format \in {"Rgba8Unorm", "Rgba8UnormSrgb"}
    THEN [result |-> Result("Ok", ""),
          trace |-> <<Step("flipv", ""), Step("to_rgba8", ""),
                      Step("create_texture", format),
                      Step("write_texture", ""),
                      Step("create_view", format),
                      Step("create_sampler", "")>>]
    ELSE IF format \in {"Bgra8Unorm", "Bgra8UnormSrgb"}
    THEN [result |-> Result("Ok", ""),
          trace |-> <<Step("flipv", ""), Step("to_bgra8", ""),
                      Step("create_texture", format),
                      Step("write_texture", ""),
                      Step("create_view", format),
                      Step("create_sampler", "")>>]
    ELSE [result |-> Result("Err", "Format not supported"),
          trace |-> <<>>]

\* Texture::from_bytes: let img = image::load_from_memory(bytes)?;
\* Self::from_image(device, queue, &img, label, format)
FromBytes(bytes, format) ==
    IF bytes = "garbage"
    THEN [result |-> Result("Err", "image error"),
          trace |-> <<Step("load_from_memory", "Err")>>]
    ELSE LET r == FromImage(format)
         IN [r EXCEPT !.trace = <<Step("load_from_memory", "Ok")>> \o @]

\* Texture::load_from_path: File::open(path)?, fs::metadata(path)?,
\* f.read(..)?, then Self::from_bytes(..)
LoadFromPath(file, bytes, format) ==
    IF file = "open_err"
    THEN [result |-> Result("Err", "io error"),
          trace |-> <<Step("File::open", "Err")>>]
    ELSE IF file = "read_err"
    THEN [result |-> Result("Err", "io error"),
          trace |-> <<Step("File::open", "Ok"), Step("read", "Err")>>]
    ELSE LET r == FromBytes(bytes, format)
         IN [r EXCEPT !.trace = <<Step("File::open", "Ok"), Step("read", "Ok")>> \o @]

\* The number of steps named `name` a call took.
StepsNamed(trace, name) ==
    Cardinality({k \in 1..Len(trace) : trace[k].step = name})

\* Texture::from_image
TxFromImage ==
    /\ textures < MaxTextures
    /\ \E format \in TextureFormats :
          LET out == FromImage(format)
          IN /\ tx_call' = [fn |-> "from_image", file |-> "", bytes |-> "",
                            format |-> format]
             /\ tx_result' = out.result
             /\ tx_trace' = out.trace
             /\ textures' = textures + StepsNamed(out.trace, "create_texture")
             /\ queue_writes' = queue_writes + StepsNamed(out.trace, "write_texture")
    /\ UNCHANGED notTx

\* Texture::from_bytes
TxFromBytes ==
    /\ textures < MaxTextures
    /\ \E bytes \in BytesInputs, format \in TextureFormats :
          LET out == FromBytes(bytes, format)
          IN /\ tx_call' = [fn |-> "from_bytes", file |-> "", bytes |-> bytes,
                            format |-> format]
             /\ tx_result' = out.result
             /\ tx_trace' = out.trace
             /\ textures' = textures + StepsNamed(out.trace, "create_texture")
             /\ queue_writes' = queue_writes + StepsNamed(out.trace, "write_texture")
    /\ UNCHANGED notTx

\* Texture::load_from_path
TxLoadFromPath ==
    /\ textures < MaxTextures
    /\ \E file \in TextureFileInputs, bytes \in BytesInputs,
          format \in TextureFormats :
          LET out == LoadFromPath(file, bytes, format)
          IN /\ (file # "readable" => bytes = "image")
             /\ tx_call' = [fn |-> "load_from_path", file |-> file,
                            bytes |-> IF file = "readable" THEN bytes ELSE "",
                            format |-> format]
             /\ tx_result' = out.result
             /\ tx_trace' = out.trace
             /\ textures' = textures + StepsNamed(out.trace, "create_texture")
             /\ queue_writes' = queue_writes + StepsNamed(out.trace, "write_texture")
    /\ UNCHANGED notTx

TxInit ==
    /\ textures = 0
    /\ queue_writes = 0
    /\ tx_call = [fn |-> "none", file |-> "", bytes |-> "", format |-> ""]
    /\ tx_result = Result("none", "")
    /\ tx_trace = <<>>

TxNext == TxFromImage \/ TxFromBytes \/ TxLoadFromPath

vars == <<layoutVars, pipeVars, passVars, fwVars, shVars, uiVars, txVars>>

Init ==
    LayoutInit /\ PipeInit /\ PassInit /\ FwInit /\ ShInit /\ UiInit /\ TxInit

SpecLayout == Init /\ [][LayoutNext]_vars

SpecPipeline == Init /\ [][PipeNext]_vars

SpecPass == Init /\ [][PassNext]_vars

SpecFramework == Init /\ [][FwNext]_vars

SpecShader == Init /\ [][ShNext]_vars

SpecUi == Init /\ [][UiNext]_vars

SpecTexture == Init /\ [][TxNext]_vars

\* ------------------------------------------------------------ claims C1..C3
\* The ranges of the created layout.
CreatedRanges == Unwrap(created).push_const_ranges

\* The smallest multiple of 4 that is greater than or equal to s.
RoundUp4(s) == CHOOSE m \in s..(s + 3) : m % 4 = 0

\* C1: for every pushed PushConstantLayout of declared size s, the length
\* (end - start) of the range create produces for it is s rounded up to a
\* multiple of 4.
C1_RangeLengthIsSizeRoundedUp ==
    IsSome(created) =>
        \A i \in 1..Len(created_from) :
            /\ i <= Len(CreatedRanges)
            /\ CreatedRanges[i].end - CreatedRanges[i].start
                   = RoundUp4(created_from[i].size)

\* Two ranges share no byte.
Disjoint(r, q) == \A b \in r.start..(r.end - 1) : ~(q.start <= b /\ b < q.end)

\* C2: create yields exactly one range per pushed layout, in push order; the
\* first starts at 0, each next one starts where the previous one ends, each
\* carries the stages of its layout, and no two ranges overlap.
C2_RangesBackToBack ==
    IsSome(created) =>
        /\ Len(CreatedRanges) = Len(created_from)
        /\ Len(CreatedRanges) > 0 => CreatedRanges[1].start = 0
        /\ \A i \in 1..(Len(CreatedRanges) - 1) :
               CreatedRanges[i + 1].start = CreatedRanges[i].end
        /\ \A i \in 1..Len(CreatedRanges) :
               CreatedRanges[i].stages = created_from[i].stages
        /\ \A i, j \in 1..Len(CreatedRanges) :
               i # j => Disjoint(CreatedRanges[i], CreatedRanges[j])

\* A layout was created from three layouts of non-zero size whose stages differ.
C2_Witness ==
    /\ IsSome(created)
    /\ Len(created_from) = MaxLayouts
    /\ \A i \in 1..Len(created_from) : created_from[i].size > 0
    /\ created_from[1].stages # created_from[2].stages
    /\ CreatedRanges[2].start > 0

\* C3: every start offset and every end offset of the ranges create produces
\* is a multiple of 4, whatever the declared sizes.
C3_OffsetsMultipleOf4 ==
    IsSome(created) =>
        \A i \in 1..Len(CreatedRanges) :
            /\ CreatedRanges[i].start % 4 = 0
            /\ CreatedRanges[i].end % 4 = 0

\* A layout was created from two or more layouts, none of a size that is a
\* multiple of 4.
C3_Witness ==
    /\ IsSome(created)
    /\ Len(created_from) >= 2
    /\ \A i \in 1..Len(created_from) : created_from[i].size % 4 # 0
    /\ \E i \in 1..Len(created_from) : created_from[i].size > 4


\* ------------------------------------------------------------ claims C5, C6
BuildCalls == {"RenderPipelineBuilder::build", "ComputePipelineBuilder::build"}

Last(seq) == seq[Len(seq)]

\* C5: the pipeline build returns carries exactly the push-constant ranges of
\* the PipelineLayout given to set_layout (same number, order, stages, start
\* and end); after several set_layout calls, those of the last layout set.
C5_BuiltCarriesLastLayoutRanges ==
    (pb_call \in BuildCalls /\ IsSome(built)) =>
        /\ set_layouts # <<>>
        /\ Unwrap(built).push_const_ranges = Last(set_layouts).push_const_ranges

\* A compute pipeline was built, after a render pipeline, from a builder whose
\* layout was set twice, to layouts with different ranges, the last with two.
C5_Witness ==
    /\ pb_call = "ComputePipelineBuilder::build"
    /\ IsSome(built)
    /\ Len(device_pipelines) = 2
    /\ device_pipelines[1].kind = "render"
    /\ Len(set_layouts) = 2
    /\ set_layouts[1].push_const_ranges # set_layouts[2].push_const_ranges
    /\ Len(Unwrap(built).push_const_ranges) = 2

\* C6: build on a builder on which set_layout was never called panics with
\* "no layout provided" and creates no pipeline on the device.
C6_BuildWithoutLayoutPanics ==
    [][(pb_call' \in BuildCalls /\ set_layouts = <<>>) =>
          /\ panic' = "no layout provided"
          /\ device_pipelines' = device_pipelines
          /\ built' = None]_vars

\* A build panicked for want of a layout, after an earlier pipeline was built.
C6_Witness ==
    /\ pb_call \in BuildCalls
    /\ set_layouts = <<>>
    /\ panic = "no layout provided"
    /\ device_pipelines # <<>>


\* ----------------------------------------------------------- claims C4, C10
\* The push-constant ranges of the layout a wgpu pipeline was created with.
RangesOfWgpu(pipeline) == Unwrap(pipeline.layout).push_constant_ranges

\* C4: set_push_const(index, c) with index smaller than the number of ranges
\* writes the bytes of c at the start offset of range number index of the
\* pipeline most recently set on the pass (by the pass's or the pass-pipeline's
\* set_pipeline), on a render pass with the stages of that range.
C4_PushConstUsesCurrentPipeline ==
    /\ (/\ pass_call.op = "RenderPassPipeline::set_push_const"
        /\ pass_call.index < Len(RangesOfWgpu(Unwrap(rp_current)))) =>
           LET range == RangesOfWgpu(Unwrap(rp_current))[pass_call.index + 1]
           IN /\ pass_panic = NoPanic
              /\ emitted = <<[cmd |-> "set_push_constants",
                              stages |-> range.stages,
                              offset |-> range.start,
                              data |-> pass_call.constant]>>
    /\ (/\ pass_call.op = "ComputePassPipeline::set_push_const"
        /\ pass_call.index < Len(RangesOfWgpu(Unwrap(cp_current)))) =>
           LET range == RangesOfWgpu(Unwrap(cp_current))[pass_call.index + 1]
           IN /\ pass_panic = NoPanic
              /\ emitted = <<[cmd |-> "set_push_constants",
                              offset |-> range.start,
                              data |-> pass_call.constant]>>

\* set_push_const(1, c) was called on a render pass on which a second pipeline
\* was set after a first whose range 1 starts elsewhere and has other stages.
C4_Witness ==
    /\ pass_call.op = "RenderPassPipeline::set_push_const"
    /\ pass_call.index = 1
    /\ IsSome(rp_previous)
    /\ Len(RangesOfWgpu(Unwrap(rp_previous))) = 2
    /\ Len(RangesOfWgpu(Unwrap(rp_current))) = 2
    /\ RangesOfWgpu(Unwrap(rp_previous))[2].start
          # RangesOfWgpu(Unwrap(rp_current))[2].start
    /\ RangesOfWgpu(Unwrap(rp_previous))[2].stages
          # RangesOfWgpu(Unwrap(rp_current))[2].stages
    /\ Len(emitted) = 1
    /\ emitted[1].offset > 0

\* C10: set_bind_groups(bind_groups) binds, for every i from 0 to len-1 in
\* ascending order, the i-th element at slot i with no dynamic offsets; it
\* binds nothing at a slot >= len, and nothing at all for an empty slice.
C10_SetBindGroupsBindsBySlot ==
    pass_call.op = "RenderPassPipeline::set_bind_groups" =>
        LET bind_groups == pass_call.bind_groups
            len == Len(bind_groups)
        IN /\ \A k \in 1..Len(emitted) :
                 /\ emitted[k].cmd = "set_bind_group"
                 /\ emitted[k].offsets = <<>>
                 /\ emitted[k].index < len
           /\ \A i \in 0..(len - 1) :
                 /\ Cardinality({k \in 1..Len(emitted) : emitted[k].index = i}) = 1
                 /\ \A k \in 1..Len(emitted) :
                       emitted[k].index = i => emitted[k].bind_group = bind_groups[i + 1]
           /\ \A j, k \in 1..Len(emitted) :
                 j < k => emitted[j].index < emitted[k].index
           /\ len = 0 => emitted = <<>>

\* set_bind_groups was called with two different bind groups.
C10_Witness ==
    /\ pass_call.op = "RenderPassPipeline::set_bind_groups"
    /\ Len(pass_call.bind_groups) = MaxBindGroups
    /\ pass_call.bind_groups[1] # pass_call.bind_groups[2]
    /\ Len(emitted) = MaxBindGroups


\* ----------------------------------------------------------------- claim C7
\* The steps the closure took after the render callback returned and before
\* it submitted the encoder, the callback's own effect aside.
RECURSIVE Between(_, _, _, _)
Between(steps, from, to, inside) ==
    IF steps = <<>> THEN <<>>
    ELSE IF Head(steps).step = to THEN <<>>
    ELSE IF Head(steps).step = from THEN Between(Tail(steps), from, to, TRUE)
    ELSE (IF inside /\ Head(steps).step # "render_cb sets control_flow"
          THEN <<Head(steps)>> ELSE <<>>)
         \o Between(Tail(steps), from, to, inside)

AfterRender == Between(fw_trace, "render_cb", "queue.submit", FALSE)

\* The render callback ran for a redraw of the own window and returned an error.
RenderFailed ==
    /\ fw_event.kind = "RedrawRequested"
    /\ fw_event.own
    /\ fw_event.texture = "Ok"
    /\ fw_event.render # "Ok"

\* C7 as stated: when the render callback returns a surface error the loop
\* takes no recovery action of its own: it does not resize the surface and
\* does not change the control flow; it only reports the error.
C7_RenderErrorOnlyReported ==
    RenderFailed =>
        /\ \A k \in 1..Len(AfterRender) :
              AfterRender[k].step \notin {"winit.resize", "control_flow ="}
        /\ AfterRender = <<Step("eprintln", fw_event.render)>>

\* C7 as amended: the loop only reports a render error that is neither Lost
\* nor OutOfMemory; on Lost it reconfigures the surface with
\* winit.resize(winit.size) and on OutOfMemory it sets the control flow to
\* Exit, reporting neither; with no error it does none of this.
C7_RenderErrorHandling ==
    (/\ fw_event.kind = "RedrawRequested"
     /\ fw_event.own
     /\ fw_event.texture = "Ok") =>
        /\ fw_event.render = "Ok" => AfterRender = <<>>
        /\ fw_event.render = "Lost" =>
              /\ AfterRender = <<Step("winit.resize", "winit.size")>>
              /\ resized_to = "winit.size"
        /\ fw_event.render = "OutOfMemory" =>
              /\ AfterRender = <<Step("control_flow =", "Exit")>>
              /\ control_flow = "Exit"
        /\ fw_event.render \in {"Timeout", "Outdated"} =>
              AfterRender = <<Step("eprintln", fw_event.render)>>
        /\ (fw_event.render # "OutOfMemory" /\ fw_event.cb_flow = "keep") =>
              control_flow # "Exit"

\* The render callback returned Lost and the loop resized the surface to the
\* size it has.
C7_Witness ==
    /\ RenderFailed
    /\ fw_event.render = "Lost"
    /\ resized_to = "winit.size"
    /\ \E k \in 1..Len(fw_trace) : fw_trace[k].step = "winit.resize"


\* ----------------------------------------------------------------- claim C8
\* C8: a shader file that cannot be read, including a path that does not
\* exist, makes load_glsl return Err("Failed to read shader file ..") without
\* aborting the program and without creating a shader module.
C8_UnreadableFileIsErr ==
    (sh_call.fn = "load_glsl" /\ sh_call.file \in {"missing", "unreadable"}) =>
        /\ sh_result = Result("Err", "Failed to read shader file")
        /\ ModulesCreated(sh_trace) = 0


\* ----------------------------------------------------------------- claim C9
\* The names of the steps of ui itself in a trace: the call of f counts once,
\* what f does inside and its return are left out.
RECURSIVE OwnSteps(_)
OwnSteps(trace) ==
    IF trace = <<>> THEN <<>>
    ELSE (IF Head(trace).step = "f" /\ Head(trace).arg # "called"
          THEN <<>> ELSE <<Head(trace).step>>)
         \o OwnSteps(Tail(trace))

IsPrefix(p, q) == Len(p) <= Len(q) /\ \A k \in 1..Len(p) : p[k] = q[k]

\* The order the claim states.
C9_Order ==
    <<"prepare_frame", "update_delta_time", "frame", "f", "begin", "render",
      "drop", "return">>

\* C9: ui runs prepare_frame, update_delta_time, the start of the UI frame, the
\* closure f (exactly once), the begin of a render pass that loads dst, the
\* rendering of the UI and the end of the pass, in this order; the pass is
\* begun only after f has returned and is ended before ui returns, so no pass
\* begun by ui is open while f runs or after ui returns.
C9_UiPassScoped ==
    /\ IsPrefix(OwnSteps(ui_trace), C9_Order)
    /\ (ui_pc = 0 /\ ui_trace # <<>> /\ ui_panic = NoPanic) =>
           OwnSteps(ui_trace) = C9_Order
    /\ ui_f_pass # "out" => ui_pass = "none"
    /\ ui_pc = 0 => ui_pass # "open"
    /\ ui_pass = "open" => UiAt \in {"render", "drop"}
    /\ \A k \in 1..Len(ui_trace) :
           /\ ui_trace[k].step = "begin" =>
                 /\ ui_trace[k].arg = "dst.color_attachment_load"
                 /\ \E j \in 1..(k - 1) : ui_trace[j] = Step("f", "returned")
           /\ ui_trace[k].step = "return" =>
                 \E j \in 1..(k - 1) : ui_trace[j].step = "drop"

\* ui returned after a closure that recorded a pass of its own, and its own
\* pass was begun and ended.
C9_Witness ==
    /\ ui_pc = 0
    /\ ui_panic = NoPanic
    /\ ui_pass = "ended"
    /\ ui_trace # <<>>
    /\ ui_trace[Len(ui_trace)].step = "return"
    /\ \E k \in 1..Len(ui_trace) : ui_trace[k] = Step("f", "begin_pass")


\* ---------------------------------------------------------------- claim C11
\* C11: for a layout created from layouts of declared sizes s_0..s_n, writing
\* a constant of s_i bytes with set_push_const(i, ..) touches only bytes inside
\* range i, and the bytes written for two distinct indices are disjoint.
C11_PushConstWritesDisjoint ==
    IsSome(created) =>
        \A i \in 1..Len(created_from) :
            LET w_i == PushConstWrite(CreatedRanges, i - 1, created_from[i].size)
            IN /\ \A b \in w_i :
                     CreatedRanges[i].start <= b /\ b < CreatedRanges[i].end
               /\ \A j \in 1..Len(created_from) :
                     i # j =>
                       w_i \cap PushConstWrite(CreatedRanges, j - 1,
                                               created_from[j].size) = {}


\* ---------------------------------------------------------------- claim C12
\* C12: in every state of a RenderPassPipeline, vert_buffer_index is 0 if no
\* vertex buffer was bound since the most recent set_pipeline and otherwise
\* one more than the slot bound last; set_vertex_buffer(index, ..) binds slot
\* index, push_vertex_buffer binds the slot the counter had; hence pushes that
\* are the only bindings since set_pipeline bind slots 0, 1, 2, .. in order.
C12_VertBufferIndexFollowsBindings ==
    IsSome(rpp) =>
        /\ Unwrap(rpp).vert_buffer_index =
              IF vb_bound = <<>> THEN 0 ELSE Last(vb_bound).slot + 1
        /\ pass_call.op \in {"RenderPass::set_pipeline",
                             "RenderPassPipeline::set_pipeline"} =>
              Unwrap(rpp).vert_buffer_index = 0 /\ vb_bound = <<>>
        /\ pass_call.op = "RenderPassPipeline::set_vertex_buffer" =>
              /\ vb_bound # <<>>
              /\ Last(vb_bound) = [op |-> "set", slot |-> pass_call.index]
              /\ emitted = <<[cmd |-> "set_vertex_buffer",
                              index |-> pass_call.index,
                              buffer_slice |-> pass_call.buffer_slice]>>
        /\ pass_call.op = "RenderPassPipeline::push_vertex_buffer" =>
              /\ vb_bound # <<>>
              /\ Last(vb_bound).op = "push"
              /\ emitted = <<[cmd |-> "set_vertex_buffer",
                              index |-> Last(vb_bound).slot,
                              buffer_slice |-> pass_call.buffer_slice]>>
        /\ \A k \in 1..Len(vb_bound) :
              vb_bound[k].op = "push" =>
                 vb_bound[k].slot = IF k = 1 THEN 0 ELSE vb_bound[k - 1].slot + 1
        /\ (\A k \in 1..Len(vb_bound) : vb_bound[k].op = "push") =>
              \A k \in 1..Len(vb_bound) : vb_bound[k].slot = k - 1

\* Two push_vertex_buffer calls after a set_pipeline on a RenderPassPipeline
\* whose counter was not 0: they bound slots 0 and 1.
C12_Witness ==
    /\ IsSome(rpp)
    /\ vb_bound = <<[op |-> "push", slot |-> 0], [op |-> "push", slot |-> 1]>>
    /\ pass_call.op = "RenderPassPipeline::push_vertex_buffer"
    /\ Unwrap(rpp).vert_buffer_index = 2
    /\ IsSome(rp_previous)


\* ---------------------------------------------------------------- claim C13
\* The RenderPassPipeline operations the claim names.
C13_Ops ==
    {"RenderPassPipeline::set_bind_group", "RenderPassPipeline::set_bind_groups",
     "RenderPassPipeline::set_push_const", "RenderPassPipeline::set_index_buffer",
     "RenderPassPipeline::draw", "RenderPassPipeline::draw_indexed"}

\* C13: set_bind_group, set_bind_groups, set_push_const, set_index_buffer, draw
\* and draw_indexed leave vert_buffer_index and the current pipeline (of the
\* RenderPassPipeline and of the wgpu pass) as they were, and bind no vertex
\* buffer, so the slots later push_vertex_buffer calls bind are not changed.
C13_OtherOpsKeepSlotCounter ==
    [][ pass_call'.op \in C13_Ops =>
          /\ IsSome(rpp) /\ IsSome(rpp')
          /\ Unwrap(rpp').vert_buffer_index = Unwrap(rpp).vert_buffer_index
          /\ Unwrap(rpp').pipeline = Unwrap(rpp).pipeline
          /\ rp_current' = rp_current
          /\ vb_bound' = vb_bound
          /\ \A k \in 1..Len(emitted') :
                emitted'[k].cmd \notin {"set_vertex_buffer", "set_pipeline"} ]_vars

\* One of these operations was performed after a push_vertex_buffer and the
\* counter still stands behind the pushed slot.
C13_Witness ==
    /\ pass_call.op \in C13_Ops
    /\ emitted # <<>>
    /\ IsSome(rpp)
    /\ vb_bound = <<[op |-> "push", slot |-> 0]>>
    /\ Unwrap(rpp).vert_buffer_index = 1


\* ---------------------------------------------------------------- claim C14
\* The number of steps named `name` in `steps`.
RECURSIVE Count(_, _)
Count(steps, name) ==
    IF steps = <<>> THEN 0
    ELSE (IF Head(steps).step = name THEN 1 ELSE 0) + Count(Tail(steps), name)

\* The steps that are the loop's built-in handling of a window event.
BuiltinStepNames == {"control_flow =", "winit.resize", "resize"}

WindowEventKinds ==
    {"CloseRequested", "Resized", "ScaleFactorChanged", "KeyboardInput"}

\* C14: for a window event of the own window the event callback is called
\* exactly once and before any built-in handling, and when it returns true no
\* built-in handling happens (no Exit, no surface resize, no resize callback);
\* a window event of another window calls neither the event callback nor the
\* resize callback and changes neither the surface nor the control flow.
C14_EventCallbackFirst ==
    [][ fw_event'.kind \in WindowEventKinds =>
          /\ fw_event'.own =>
                /\ Count(fw_trace', "event_cb") = 1
                /\ \A k \in 1..Len(fw_trace') :
                      fw_trace'[k].step \in BuiltinStepNames =>
                         \E j \in 1..(k - 1) : fw_trace'[j].step = "event_cb"
                /\ fw_event'.consumed =>
                      /\ \A k \in 1..Len(fw_trace') :
                            fw_trace'[k].step \notin BuiltinStepNames
                      /\ control_flow' = control_flow
                      /\ resized_to' = resized_to
          /\ ~fw_event'.own =>
                /\ \A k \in 1..Len(fw_trace') :
                      fw_trace'[k].step \notin BuiltinStepNames \cup {"event_cb"}
                /\ control_flow' = control_flow
                /\ resized_to' = resized_to ]_vars

\* The event callback consumed a Resized of the own window and the surface was
\* not resized to the event's size.
C14_Witness ==
    /\ fw_event.kind = "Resized"
    /\ fw_event.own
    /\ fw_event.consumed
    /\ resized_to # fw_event.size
    /\ Count(fw_trace, "event_cb") = 1


\* ---------------------------------------------------------------- claim C15
\* The closure itself assigned ControlFlow::Exit while handling the event.
LoopSetExit(steps) ==
    \E k \in 1..Len(steps) : steps[k] = Step("control_flow =", "Exit")

\* C15: the loop itself sets the control flow to Exit in exactly two
\* situations: an unconsumed CloseRequested of the own window, and a render
\* callback result of OutOfMemory; nothing else makes the loop set Exit, so a
\* control flow that becomes Exit was set by the loop in one of these two
\* situations or by the render callback.
C15_ExitOnlyOnCloseOrOutOfMemory ==
    [][ /\ LoopSetExit(fw_trace') <=>
              \/ /\ fw_event'.kind = "CloseRequested"
                 /\ fw_event'.own
                 /\ ~fw_event'.consumed
              \/ /\ fw_event'.kind = "RedrawRequested"
                 /\ fw_event'.own
                 /\ fw_event'.texture = "Ok"
                 /\ fw_event'.render = "OutOfMemory"
        /\ LoopSetExit(fw_trace') => control_flow' = "Exit"
        /\ (control_flow' = "Exit" /\ control_flow # "Exit") =>
              LoopSetExit(fw_trace') \/ fw_event'.cb_flow = "Exit" ]_vars

\* The render callback returned OutOfMemory without touching the control flow
\* and the loop set Exit.
C15_Witness ==
    /\ fw_event.kind = "RedrawRequested"
    /\ fw_event.render = "OutOfMemory"
    /\ fw_event.cb_flow = "keep"
    /\ LoopSetExit(fw_trace)
    /\ control_flow = "Exit"

\* ---------------------------------------------------------------- claim C16
\* The positions of the steps named `name` in `steps`.
Positions(steps, name) == { k \in 1..Len(steps) : steps[k].step = name }

\* C16: on an unconsumed Resized(size) or ScaleFactorChanged with
\* new_inner_size = size of the own window, the loop calls winit.resize(size)
\* first and then the resize callback, each exactly once and with that size.
C16_ResizeBeforeCallback ==
    (/\ fw_event.kind \in {"Resized", "ScaleFactorChanged"}
     /\ fw_event.own
     /\ ~fw_event.consumed) =>
        /\ Count(fw_trace, "winit.resize") = 1
        /\ Count(fw_trace, "resize") = 1
        /\ \A i \in Positions(fw_trace, "winit.resize"),
              j \in Positions(fw_trace, "resize") :
              /\ i < j
              /\ fw_trace[i].arg = fw_event.size
              /\ fw_trace[j].arg = fw_event.size
        /\ resized_to = fw_event.size

\* An unconsumed ScaleFactorChanged resized the surface to size_b and then
\* called the resize callback.
C16_Witness ==
    /\ fw_event.kind = "ScaleFactorChanged"
    /\ fw_event.own
    /\ ~fw_event.consumed
    /\ fw_event.size = "size_b"
    /\ resized_to = "size_b"
    /\ Count(fw_trace, "resize") = 1

\* ---------------------------------------------------------------- claim C17
\* C17: on a RedrawRequested of the own window whose get_current_texture
\* fails, the loop reports the error and does nothing else: no render callback,
\* no command encoder created or submitted, nothing presented, no
\* winit.update, and control flow and surface are as they were.
C17_TextureErrorSkipsRedraw ==
    [][ (/\ fw_event'.kind = "RedrawRequested"
         /\ fw_event'.own
         /\ fw_event'.texture # "Ok") =>
          /\ fw_trace' = <<Step("platform.handle_event", ""),
                           Step("get_current_texture", fw_event'.texture),
                           Step("eprintln", fw_event'.texture)>>
          /\ \A k \in 1..Len(fw_trace') :
                fw_trace'[k].step \notin
                   {"render_cb", "create_command_encoder", "queue.submit",
                    "present", "winit.update", "control_flow =", "winit.resize"}
          /\ control_flow' = control_flow
          /\ control_flow' # "Exit"
          /\ resized_to' = resized_to ]_vars

\* Acquiring the texture failed with Lost while the control flow was Wait, and
\* it still is.
C17_Witness ==
    /\ fw_event.kind = "RedrawRequested"
    /\ fw_event.own
    /\ fw_event.texture = "Lost"
    /\ control_flow = "Wait"
    /\ Count(fw_trace, "eprintln") = 1

\* ---------------------------------------------------------------- claim C18
\* The names of the steps of `steps` that are in `names`, in order.
RECURSIVE Only(_, _)
Only(steps, names) ==
    IF steps = <<>> THEN <<>>
    ELSE (IF Head(steps).step \in names THEN <<Head(steps).step>> ELSE <<>>)
         \o Only(Tail(steps), names)

\* C18: on a RedrawRequested of the own window whose texture was acquired,
\* the loop calls the render callback once and then, whatever it returned,
\* submits the encoder, presents the output and calls winit.update, once each
\* and in this order.
C18_AlwaysSubmitPresentUpdate ==
    (/\ fw_event.kind = "RedrawRequested"
     /\ fw_event.own
     /\ fw_event.texture = "Ok") =>
        /\ fw_event.render \in {"Ok"} \cup SurfaceErrors
        /\ Only(fw_trace, {"render_cb", "queue.submit", "present", "winit.update"})
              = <<"render_cb", "queue.submit", "present", "winit.update">>
        /\ \A k \in Positions(fw_trace, "render_cb") :
              fw_trace[k].arg = fw_event.render
        /\ fw_trace[Len(fw_trace)].step = "winit.update"

\* The render callback returned Timeout and the frame was still submitted,
\* presented and followed by winit.update.
C18_Witness ==
    /\ fw_event.kind = "RedrawRequested"
    /\ fw_event.texture = "Ok"
    /\ fw_event.render = "Timeout"
    /\ Count(fw_trace, "queue.submit") = 1
    /\ Count(fw_trace, "present") = 1
    /\ Count(fw_trace, "winit.update") = 1

\* ---------------------------------------------------------------- claim C19
\* C19: every MainEventsCleared makes the loop request a redraw of its window
\* (once), and no other event does: a redraw becomes requested only by a
\* MainEventsCleared.
C19_RedrawRequestedOnMainEventsCleared ==
    [][ /\ fw_event'.kind = "MainEventsCleared" =>
              /\ Count(fw_trace', "window.request_redraw") = 1
              /\ redraw_requested'
        /\ fw_event'.kind # "MainEventsCleared" =>
              /\ Count(fw_trace', "window.request_redraw") = 0
              /\ redraw_requested' => redraw_requested ]_vars

\* A MainEventsCleared requested a redraw after the surface had been resized
\* by an earlier event.
C19_Witness ==
    /\ fw_event.kind = "MainEventsCleared"
    /\ redraw_requested
    /\ Count(fw_trace, "window.request_redraw") = 1
    /\ resized_to # ""


\* ---------------------------------------------------------------- claim C20
\* The stage values the claim calls supported.
C20_Supported == {{"VERTEX"}, {"FRAGMENT"}, {"COMPUTE"}}

\* The last shader call was from_src_glsl or load_glsl with another stage value.
C20_UnsupportedStageCall ==
    /\ sh_call.fn \in {"from_src_glsl", "load_glsl"}
    /\ sh_call.stage \notin C20_Supported

C21_MacroNames == {"VERTEX_SHADER", "FRAGMENT_SHADER", "COMPUTE_SHADER"}

\* The macro that belongs to the stage or kind the last call requested, "" if
\* the stage or kind is none of vertex, fragment and compute.
C21_Requested ==
    IF sh_call.fn \in {"from_src_glsl", "load_glsl"}
    THEN (CASE sh_call.stage = {"VERTEX"} -> "VERTEX_SHADER"
            [] sh_call.stage = {"FRAGMENT"} -> "FRAGMENT_SHADER"
            [] sh_call.stage = {"COMPUTE"} -> "COMPUTE_SHADER"
            [] OTHER -> "")
    ELSE (CASE sh_call.kind = "Vertex" -> "VERTEX_SHADER"
            [] sh_call.kind = "Fragment" -> "FRAGMENT_SHADER"
            [] sh_call.kind = "Compute" -> "COMPUTE_SHADER"
            [] OTHER -> "")

\* C21: whenever from_src_glsl, load_glsl or shader_with_shaderc hands a GLSL
\* source to the compiler for a vertex, fragment or compute stage, each of
\* VERTEX_SHADER, FRAGMENT_SHADER and COMPUTE_SHADER is defined, with one value,
\* and no other macro is; the macro of the requested stage is "1" and the other
\* two are "0".
C21_StageMacrosDefined ==
    (/\ sh_call.fn \in {"from_src_glsl", "load_glsl", "shader_with_shaderc"}
     /\ Count(sh_trace, "compile_into_spirv") > 0
     /\ C21_Requested # "") =>
        /\ \A m \in sh_macros : m[1] \in C21_MacroNames
        /\ \A name \in C21_MacroNames :
              { m \in sh_macros : m[1] = name } =
                 { <<name, IF name = C21_Requested THEN "1" ELSE "0">> }
        /\ Cardinality({ m \in sh_macros : m[2] = "1" }) = 1
        /\ \A k \in Positions(sh_trace, "compile_into_spirv") :
              \E j \in 1..(k - 1) : sh_trace[j].step = "add_macro_definition"

\* One module was already created and a second from_src_glsl call, for the
\* fragment stage, compiled with FRAGMENT_SHADER as the only macro that is 1.
C21_Witness ==
    /\ sh_call.fn = "from_src_glsl"
    /\ sh_call.stage = {"FRAGMENT"}
    /\ sh_result.kind = "Ok"
    /\ shader_modules = 2
    /\ <<"FRAGMENT_SHADER", "1">> \in sh_macros
    /\ <<"VERTEX_SHADER", "0">> \in sh_macros


\* ---------------------------------------------------------------- claim C22
\* C22: shader_load chooses the source kind from the extension of the path
\* only: "glsl" gives a GLSL source with the given stage, "wgsl" a WGSL source,
\* any other extension Err("Unknown Extension"), no extension
\* Err("No extension"); an error creates no shader module. The file is opened
\* and read first, so a file that cannot be opened or read or is not UTF-8
\* gives the I/O or decoding error whatever the extension.
C22_ShaderLoadByExtension ==
    sh_call.fn = "shader_load" =>
        LET extension == Extension(sh_call.path)
        IN /\ sh_result.kind \in {"Ok", "Err"}
           /\ sh_result.kind = "Err" => ModulesCreated(sh_trace) = 0
           /\ sh_result.kind = "Ok" => ModulesCreated(sh_trace) = 1
           /\ sh_call.file \in {"open_err", "read_err"} =>
                 sh_result = Result("Err", "io error")
           /\ sh_call.file = "not_utf8" =>
                 sh_result = Result("Err", "invalid utf-8")
           /\ sh_call.file = "readable" =>
                 /\ ~IsSome(extension) =>
                       sh_result = Result("Err", "No extension")
                 /\ extension = Some(<<"glsl">>) =>
                       /\ sh_result.kind = "Ok"
                       /\ Only(sh_trace, {"ShaderSource::Glsl", "ShaderSource::Wgsl",
                                          "create_shader_module"})
                             = <<"ShaderSource::Glsl", "create_shader_module">>
                       /\ \A k \in Positions(sh_trace, "ShaderSource::Glsl") :
                             sh_trace[k].arg = sh_call.kind
                 /\ extension = Some(<<"wgsl">>) =>
                       /\ sh_result.kind = "Ok"
                       /\ Only(sh_trace, {"ShaderSource::Glsl", "ShaderSource::Wgsl",
                                          "create_shader_module"})
                             = <<"ShaderSource::Wgsl", "create_shader_module">>
                 /\ (IsSome(extension)
                       /\ extension \notin {Some(<<"glsl">>), Some(<<"wgsl">>)}) =>
                       sh_result = Result("Err", "Unknown Extension")
           /\ \A k \in Positions(sh_trace, "extension") :
                 \E j \in 1..(k - 1) : sh_trace[j] = Step("from_utf8", "Ok")

\* A file that is not UTF-8, at a path without extension: the decoding error
\* was returned, not "No extension".
C22_Witness ==
    /\ sh_call.fn = "shader_load"
    /\ sh_call.file = "not_utf8"
    /\ ~IsSome(Extension(sh_call.path))
    /\ sh_result = Result("Err", "invalid utf-8")
    /\ ModulesCreated(sh_trace) = 0


\* ---------------------------------------------------------------- claim C23
\* The formats the claim names as the supported ones.
C23_Supported == {"Rgba8Unorm", "Rgba8UnormSrgb", "Bgra8Unorm", "Bgra8UnormSrgb"}

\* The last Texture call created no texture and wrote nothing to the queue.
C23_NothingCreated ==
    /\ Count(tx_trace, "create_texture") = 0
    /\ Count(tx_trace, "write_texture") = 0
    /\ Count(tx_trace, "create_view") = 0

\* C23: Texture::from_image, and from_bytes and load_from_path which delegate
\* to it, return Err for every format other than Rgba8Unorm, Rgba8UnormSrgb,
\* Bgra8Unorm and Bgra8UnormSrgb, creating no texture and writing nothing to
\* the queue; a file that cannot be opened or read and bytes that are no image
\* are returned as Err as well, never as a panic.
C23_UnsupportedFormatIsErr ==
    tx_call.fn \in {"from_image", "from_bytes", "load_from_path"} =>
        /\ tx_result.kind \in {"Ok", "Err"}
        /\ tx_call.format \notin C23_Supported =>
              /\ tx_result.kind = "Err"
              /\ C23_NothingCreated
        /\ (tx_call.fn = "from_image" /\ tx_call.format \notin C23_Supported) =>
              tx_result = Result("Err", "Format not supported")
        /\ tx_call.file \in {"open_err", "read_err"} =>
              /\ tx_result = Result("Err", "io error")
              /\ C23_NothingCreated
        /\ tx_call.bytes = "garbage" =>
              /\ tx_result = Result("Err", "image error")
              /\ C23_NothingCreated
        /\ tx_result.kind = "Err" => C23_NothingCreated
        /\ tx_result.kind = "Ok" =>
              /\ tx_call.format \in C23_Supported
              /\ Count(tx_trace, "create_texture") = 1
              /\ Count(tx_trace, "write_texture") = 1
        /\ queue_writes = textures

\* load_from_path read an image file and was asked for Depth32Float: the
\* format error came back from from_image and nothing was created.
C23_Witness ==
    /\ tx_call.fn = "load_from_path"
    /\ tx_call.file = "readable"
    /\ tx_call.bytes = "image"
    /\ tx_call.format = "Depth32Float"
    /\ tx_result = Result("Err", "Format not supported")
    /\ textures = 0
    /\ queue_writes = 0

====
